---- MODULE Spec2Model ----
(***************************************************************************)
(* Verification model of the click-track analysis pipeline                 *)
(* (pjay42/ClickTrackToBeatGrid): transient detection, 2-means clustering  *)
(* of spectral centroids, downbeat / meter resolution and tempo            *)
(* segmentation, as implemented by the script variants under src/.         *)
(*                                                                         *)
(* Conventions                                                             *)
(*  - JavaScript arrays are 0-based; sequences here are 1-based, so        *)
(*    At(s, i) reads element i of the JavaScript array.                    *)
(*  - A click time is sampleIndex / sr.  Times are kept as integer tick    *)
(*    counts together with sr (ticks per second); BPM values and cluster   *)
(*    centers are exact rationals <<n, d>> with d > 0, in lowest terms.    *)
(*  - Sample magnitudes |samples[i]| are integer multiples of a quantum    *)
(*    (a power of two), so products with 0.35 never tie with a level.      *)
(***************************************************************************)
EXTENDS Integers, Sequences, FiniteSets, TLC

VARIABLES
    pc,          \* position of the modelled run: "input" | "done"
    sr,          \* sample rate (ticks per second)
    samples,     \* |samples[i]| of the mono buffer, in quanta
    clickIdx,    \* detectClicks result, as refined sample indices (time = idx / sr)
    clickIdx4,   \* part_004: detectClicks result, as sample indices (time = idx / sr)
    detected,    \* script.js (second variant): detectClicksAdaptive result, as sample indices
    tones,       \* what the analyser yields for the k-th window that is analysed (Hz)
    window,      \* the window handed to the centroid functions: [start, fftSize]
    centroid,    \* the centroid each of the centroid functions returns for it
    features,    \* the feature events [{time, centroid}] each feature loop builds
    clicks,      \* part_003: click times handed to segmentTempo, in ticks (time = tick / sr)
    segments,    \* part_003: segmentTempo result
    values,      \* centroid values handed to kmeans2 (Hz, as rationals)
    km,          \* script.js (second variant): kmeans2 result
    km3,         \* part_003: kmeans2 result
    km4,         \* part_004: kmeans2 result, with the assignment it was built from
    isDownbeat,  \* script.js (first variant): isDownbeat per event from classifyByCentroidKMeans
    isDownbeat4, \* part_004: isDownbeat per event from classifyDownbeatsByCentroid
    fileInput,   \* script.js (second variant): the decoded file that analyze() reads
    modClicks,   \* script.js (second variant): module-level clicks, [{time, sampleIndex, centroid}]
    classification, \* script.js (second variant): module-level classification
    output,      \* script.js (second variant): the report passed to setStatus
    beats,       \* part_000: the beats [{time, isDownbeat}], time in ticks
    meter,       \* beats-per-bar reported by each estimator, <<>> for null, <<n>> for n
    state,       \* part_003: module-level state {clicks, events, segments, downbeatMask, beatsPerBar}
    output003,   \* part_003: what the analyze handler leaves in output.textContent
    runs,        \* number of analysis runs executed so far
    firstOutput, \* per handler and file: <<>> or <<the report of the first run on it>>
    lastRun,     \* the last run: its handler, whether it repeated an earlier input,
                 \* and whether the state then held the non-empty clicks of another file
    events002,   \* part_002: the module-level events array, mutated in place by the stages
    longBuffer,  \* a long sample buffer, given by its length and its non-zero samples
    foundPeak,   \* detectClicksAdaptive: <<>>, or <<the peak its fold finds in longBuffer>>
    scan,        \* script.js (first variant) detectClicks: the loop index i, lastIndex
                 \* (<<>> for -Infinity), maxAbs, and whether a click was refined backwards
    calls,       \* script.js (second variant): the analyze() calls, each with the await
                 \* it is suspended at and its local file, detected, i and centroid
    pushedBy,    \* for each entry of the module-level clicks, the call that pushed it
    page004,     \* part_004: processBtn.disabled, output.textContent, and the handler
                 \* runs whose results the module-level samples and beats hold (0: none)
    handlers004, \* part_004: the runs of the processBtn click handler, each with the
                 \* await it is suspended at and the clicks it has left to analyse
    state001,    \* script.js (first variant): state.samples and state.beats (the file they
                 \* come from, 0: null / []), duration, visibleStartSec, visibleDurSec
    ui001,       \* script.js (first variant): ui.zoom, ui.pan, the file whose beats the
                 \* table rows show, and the view the last renderAll() drew
    handlers001, \* script.js (first variant): the runs of the processBtn click handler
    iteration    \* one k-means loop: its variant, the iterations done, the centers
                 \* now and before the last iteration, and whether it has left the loop

detectVars == <<samples, clickIdx, clickIdx4, detected, tones, window, centroid, features>>
tempoVars == <<clicks, segments>>
kmeansVars == <<values, km, km3, km4, isDownbeat, isDownbeat4>>
analyzeVars == <<fileInput, modClicks, classification, output>>
meterVars == <<beats, meter>>
runVars == <<state, output003, runs, firstOutput, lastRun>>
pageVars ==
    <<events002, iteration, longBuffer, foundPeak, scan, calls, pushedBy, page004, handlers004,
      state001, ui001, handlers001>>
vars == <<pc, sr, samples, clickIdx, clickIdx4, detected, tones, window, centroid, features,
          clicks, segments, values, km, km3, km4,
          isDownbeat, isDownbeat4,
          fileInput, modClicks, classification, output, beats, meter,
          state, output003, runs, firstOutput, lastRun, pageVars>>

\* the variables of a component that a specification does not exercise
NoWindow == [start |-> 0, fftSize |-> 0]
NoCentroid == [offline |-> 0, at |-> 0, forClick |-> 0]
NoEvents == [script |-> <<>>, part002 |-> <<>>, part003 |-> <<>>]
IdleCentroid == window = NoWindow /\ centroid = NoCentroid /\ features = NoEvents
IdleDetect ==
    /\ samples = <<>> /\ clickIdx = <<>> /\ clickIdx4 = <<>> /\ detected = <<>> /\ tones = <<>>
    /\ IdleCentroid
IdleTempo == clicks = <<>> /\ segments = <<>>
NoResult == [c1 |-> <<0, 1>>, c2 |-> <<0, 1>>, labels |-> <<>>]
IdleKMeans ==
    /\ values = <<>> /\ km = NoResult /\ km3 = NoResult /\ km4 = NoResult
    /\ isDownbeat = <<>> /\ isDownbeat4 = <<>>
NoFile == [sr |-> 1, sampleIndex |-> <<>>, centroid |-> <<>>]
Null == "null"
IdleAnalyze ==
    fileInput = NoFile /\ modClicks = <<>> /\ classification = Null /\ output = Null
NoMeter == [infer |-> <<>>, auto |-> <<>>, detect |-> <<>>]
IdleMeter == beats = <<>> /\ meter = NoMeter
\* part_003: const state = { ..., beatsPerBar: 4, downbeatMask: [], ... }
InitialState003 ==
    [clicks |-> <<>>, events |-> <<>>, segments |-> <<>>, downbeatMask |-> <<>>,
     beatsPerBar |-> 4]
NoRun == [handler |-> "none", repeated |-> FALSE, afterOther |-> FALSE]
IdleRuns ==
    /\ state = InitialState003 /\ output003 = Null /\ runs = 0
    /\ firstOutput = <<>> /\ lastRun = NoRun
NoIteration ==
    [variant |-> "none", it |-> 0, c1 |-> <<0, 1>>, c2 |-> <<0, 1>>,
     before |-> <<>>, stopped |-> TRUE]
NoBuffer == [n |-> 0, at |-> <<>>]
IdlePeak == longBuffer = NoBuffer /\ foundPeak = <<>>
NoScan == [i |-> 0, lastIndex |-> <<>>, maxAbs |-> 0, wentBack |-> FALSE]
IdleCalls == calls = <<>> /\ pushedBy = <<>>
\* part_004: let samples = null; let beats = []; the button starts enabled
InitialPage004 == [disabled |-> FALSE, output |-> "", samples |-> 0, beats |-> 0]
\* script.js: const state = { samples: null, duration: 0, beats: [], ... }
InitialState001 ==
    [samples |-> 0, duration |-> 0, beats |-> 0,
     visibleStartSec |-> <<0, 1>>, visibleDurSec |-> <<0, 1>>]
\* the zoom input at 1, the pan slider as ensureZoomPanUI creates it; the
\* document may have either control disabled
InitialUi001 ==
    [zoom |-> 1, zoomDisabled |-> FALSE, pan |-> 0, panDisabled |-> TRUE, table |-> 0,
     drawn |-> <<>>]
Idle001 == state001 = InitialState001 /\ ui001 = InitialUi001 /\ handlers001 = <<>>
Idle004 == page004 = InitialPage004 /\ handlers004 = <<>> /\ Idle001
IdlePage ==
    /\ events002 = <<>> /\ iteration = NoIteration /\ IdlePeak /\ scan = NoScan
    /\ IdleCalls /\ Idle004

\* ------------------------------------------------------------------ helpers
At(s, i) == s[i + 1]

Min(a, b) == IF a <= b THEN a ELSE b
Max(a, b) == IF a >= b THEN a ELSE b
Abs(x) == IF x < 0 THEN -x ELSE x

Last(s) == s[Len(s)]

\* ------------------------------------------------------------------ exact arithmetic
\* JavaScript numbers are modelled as exact rationals <<n, d>>, d > 0, in
\* lowest terms.
RECURSIVE GCD(_, _)
GCD(a, b) == IF b = 0 THEN a ELSE GCD(b, a % b)

Rat(n, d) ==
    LET g == GCD(Abs(n), d)
    IN  IF n = 0 THEN <<0, 1>> ELSE <<n \div g, d \div g>>

RInt(k) == <<k, 1>>

\* the numerator of a over the least common denominator of a and b
OverLcd(a, b) == a[1] * (b[2] \div GCD(a[2], b[2]))
Lcd(a, b) == a[2] * (b[2] \div GCD(a[2], b[2]))

RAdd(a, b) == Rat(OverLcd(a, b) + OverLcd(b, a), Lcd(a, b))
RSub(a, b) == Rat(OverLcd(a, b) - OverLcd(b, a), Lcd(a, b))
RDivInt(a, k) == Rat(a[1], a[2] * k)
RMul(a, b) == Rat(a[1] * b[1], a[2] * b[2])
RAbs(a) == <<Abs(a[1]), a[2]>>
RLt(a, b) == OverLcd(a, b) < OverLcd(b, a)
RLe(a, b) == OverLcd(a, b) <= OverLcd(b, a)

\* Math.round(x * k) / k, with Math.round rounding halves up
RRound(x, k) == Rat((2 * k * x[1] + x[2]) \div (2 * x[2]), k)

\* r1(x) = Math.round(x * 10) / 10 and r3(x) = Math.round(x * 1000) / 1000
r1(x) == RRound(x, 10)
r3(x) == RRound(x, 1000)

\* arr.slice().sort((x, y) => x - y)
RECURSIVE RInsert(_, _)
RInsert(x, s) ==
    IF s = <<>> THEN <<x>>
    ELSE IF RLe(x, Head(s)) THEN <<x>> \o s
    ELSE <<Head(s)>> \o RInsert(x, Tail(s))

RECURSIVE RSort(_)
RSort(s) == IF s = <<>> THEN <<>> ELSE RInsert(Head(s), RSort(Tail(s)))

\* ------------------------------------------------------------------ bounds
\* Length of the sample buffers that are enumerated.
BufLen == 34

\* Sample rates of the enumerated buffers (Hz).  floor(0.08*sr) and
\* floor(0.01*sr) are exact for these rates: 16 / 2 and 32 / 4.
SampleRates == {200, 400}

\* Non-zero magnitudes a pulse can have, in quanta (0 = no pulse).
Amps == {0, 1, 3}

\* ------------------------------------------------------------------ script.js (first variant): click detection
\* Math.floor(0.08 * sr)
minGapSamples(rate) == (8 * rate) \div 100

\* Math.floor(0.01 * sr)
refineWindow(rate) == rate \div 100

\* maxAbs fold of detectClicks
RECURSIVE maxAbsFrom(_, _, _)
maxAbsFrom(buf, i, m) ==
    IF i >= Len(buf) THEN m
    ELSE maxAbsFrom(buf, i + 1, IF At(buf, i) > m THEN At(buf, i) ELSE m)

maxAbs(buf) == maxAbsFrom(buf, 0, 0)

\* v > maxAbs * 0.35
overThreshold(v, m) == v * 100 > m * 35

\* inner loop of refineToLocalPeak: for (i = start; i <= end; i++) if (v > bestV) ...
RECURSIVE peakScan(_, _, _, _, _)
peakScan(buf, i, end, bestI, bestV) ==
    IF i > end THEN bestI
    ELSE IF At(buf, i) > bestV
         THEN peakScan(buf, i + 1, end, i, At(buf, i))
         ELSE peakScan(buf, i + 1, end, bestI, bestV)

refineStartBroken(startIndex, w) == 0

refineStart(startIndex, w) == Max(0, startIndex - (w \div 2))

refineToLocalPeak(buf, startIndex, rate) ==
    LET w     == refineWindow(rate)
        start == refineStart(startIndex, w)
        end   == Min(Len(buf) - 1, startIndex + (w \div 2))
    IN  peakScan(buf, start, end, startIndex, 0)

\* the scan loop of detectClicks; lastIndex is the last accepted click
\* (-Infinity, i.e. no gate, while the list is empty).  A list longer than
\* the buffer can only arise when some index is accepted twice; the
\* evaluation is cut there.
RECURSIVE detectScan(_, _, _, _, _)
detectScan(buf, rate, m, i, acc) ==
    IF i >= Len(buf) \/ Len(acc) > Len(buf) THEN acc
    ELSE IF /\ overThreshold(At(buf, i), m)
            /\ (acc = <<>> \/ i - Last(acc) > minGapSamples(rate))
         THEN LET refinedIndex == refineToLocalPeak(buf, i, rate)
              IN  detectScan(buf, rate, m, refinedIndex + 1, Append(acc, refinedIndex))
         ELSE detectScan(buf, rate, m, i + 1, acc)

detectClicks(buf, rate) == detectScan(buf, rate, maxAbs(buf), 0, <<>>)

\* ------------------------------------------------------------------ script.js (second variant): click detection
\* the peak fold of detectClicksAdaptive: for (i = 0; i < n; i += stride)
RECURSIVE peakFrom(_, _, _, _)
peakFrom(buf, stride, i, peak) ==
    IF i >= Len(buf) THEN peak
    ELSE peakFrom(buf, stride, i + stride, IF At(buf, i) > peak THEN At(buf, i) ELSE peak)

\* Math.max(1, Math.floor(n / 200000))
peakStride(n) == Max(1, n \div 200000)

\* refinement of detectClicksAdaptive: the first maximum of [i, min(n-1, i + refine)]
refineForward(buf, i, rate) ==
    peakScan(buf, i, Min(Len(buf) - 1, i + refineWindow(rate)), i, At(buf, i))

\* the scan loop of detectClicksAdaptive; last starts at -minGap
RECURSIVE adaptiveScan(_, _, _, _, _, _)
adaptiveScan(buf, rate, peak, i, last, acc) ==
    IF i >= Len(buf) THEN acc
    ELSE IF overThreshold(At(buf, i), peak) /\ i - last > minGapSamples(rate)
         THEN LET bestI == refineForward(buf, i, rate)
              IN  adaptiveScan(buf, rate, peak, bestI + 1, bestI, Append(acc, bestI))
         ELSE adaptiveScan(buf, rate, peak, i + 1, last, acc)

detectClicksAdaptive(buf, rate) ==
    adaptiveScan(buf, rate, peakFrom(buf, peakStride(Len(buf)), 0, 0), 0,
                 -minGapSamples(rate), <<>>)

\* ------------------------------------------------------------------ part_004: click detection
\* The sample index pairs (sr, last, i) below the enumerated buffer lengths
\* whose double difference i / sr - last / sr exceeds the double 0.08
\* although i - last is exactly 0.08 * sr.
RoundedAboveMinGap == {<<200, 11, 27>>, <<200, 12, 28>>, <<200, 18, 34>>}

\* (t - last) > minGap, with t = i / sr and last the time of the last click;
\* last = <<>> stands for -Infinity
gapPassed(i, last, rate) ==
    \/ last = <<>>
    \/ (i - last[1]) * 100 > 8 * rate
    \/ <<rate, last[1], i>> \in RoundedAboveMinGap

\* the scan loop of detectClicks
RECURSIVE detectScan_004(_, _, _, _, _, _)
detectScan_004(buf, rate, m, i, last, acc) ==
    IF i >= Len(buf) THEN acc
    ELSE IF overThreshold(At(buf, i), m) /\ gapPassed(i, last, rate)
         THEN detectScan_004(buf, rate, m, i + 1, <<i>>, Append(acc, i))
         ELSE detectScan_004(buf, rate, m, i + 1, last, acc)

\* detectClicks(samples, sr); arrayMaxAbs is the maximum of |samples[i]|
detectClicks_004(buf, rate) == detectScan_004(buf, rate, maxAbs(buf), 0, <<>>, <<>>)

\* ------------------------------------------------------------------ buffers
\* A buffer of BufLen samples that is silent except for up to three pulses.
PulseBuffer(p1, a1, p2, a2, p3, a3) ==
    [k \in 1..BufLen |->
        IF k = p1 + 1 THEN a1
        ELSE IF k = p2 + 1 THEN a2
        ELSE IF k = p3 + 1 THEN a3
        ELSE 0]

InitDetect ==
    /\ pc = "input"
    /\ IdlePage
    /\ IdleRuns
    /\ IdleMeter
    /\ IdleAnalyze
    /\ IdleTempo
    /\ IdleKMeans
    /\ sr \in SampleRates
    /\ \E p1, p2, p3 \in 0..(BufLen - 1) :
         /\ p1 < p2 /\ p2 < p3
         /\ \E a1, a2, a3 \in Amps :
              samples = PulseBuffer(p1, a1, p2, a2, p3, a3)
    /\ clickIdx = <<>>
    /\ clickIdx4 = <<>>
    /\ detected = <<>>
    /\ tones = <<>>
    /\ IdleCentroid

\* the detectors of script.js and part_004 applied to the same buffer
DetectClicks ==
    /\ pc = "input"
    /\ clickIdx' = detectClicks(samples, sr)
    /\ clickIdx4' = detectClicks_004(samples, sr)
    /\ detected' = detectClicksAdaptive(samples, sr)
    /\ pc' = "done"
    /\ UNCHANGED <<sr, pageVars, samples, tones, window, centroid, features,
                   tempoVars, kmeansVars, analyzeVars, meterVars, runVars>>

NextDetect == DetectClicks

SpecDetect == InitDetect /\ [][NextDetect]_vars

\* ------------------------------------------------------------------ part_003: tempo segmentation
\* median(arr)
median(arr) ==
    IF arr = <<>> THEN RInt(0)
    ELSE LET a   == RSort(arr)
             mid == Len(a) \div 2
         IN  IF Len(a) % 2 = 1 THEN At(a, mid)
             ELSE RDivInt(RAdd(At(a, mid - 1), At(a, mid)), 2)

\* dt > 0 ? 60 / dt : 0, with dt = dTicks / rate seconds
instBpm(dTicks, rate) == IF dTicks > 0 THEN Rat(60 * rate, dTicks) ELSE RInt(0)

\* the instantaneous bpm series of segmentTempo
bpmSeries(cl, rate) ==
    [i \in 1..(Len(cl) - 1) |-> instBpm(cl[i + 1] - cl[i], rate)]

\* the median filter of segmentTempo; i is the 0-based index into bpms
smoothAt(bpms, i, smoothWindow) ==
    LET h  == smoothWindow \div 2
        lo == Max(0, i - h)
        hi == Min(Len(bpms) - 1, i + h)
    IN  median([k \in 1..(hi - lo + 1) |-> At(bpms, lo + k - 1)])

smoothSeries(bpms, smoothWindow) ==
    [i \in 1..Len(bpms) |-> smoothAt(bpms, i - 1, smoothWindow)]

\* Math.abs(bpm - current) > toleranceBpm
tempoChangedLoose(bpm, current, toleranceBpm) ==
    RLt(RInt(2 * toleranceBpm), RAbs(RSub(bpm, current)))

tempoChanged(bpm, current, toleranceBpm) ==
    RLt(RInt(toleranceBpm), RAbs(RSub(bpm, current)))

Segment(cl, startIdx, endIdx, bpm) ==
    [startTime |-> At(cl, startIdx), endTime |-> At(cl, endIdx), bpm |-> bpm,
     startClickIndex |-> startIdx, endClickIndex |-> endIdx]

finalEndIndexShort(cl) == Len(cl) - 2

\* clicks.length - 1, the click that ends the last segment
finalEndIndex(cl) == Len(cl) - 1

\* the segment-building loop of segmentTempo followed by the final push
RECURSIVE segmentLoop(_, _, _, _, _, _, _)
segmentLoop(cl, sm, tol, i, segStartIdx, current, acc) ==
    IF i >= Len(sm)
    THEN Append(acc, Segment(cl, segStartIdx, finalEndIndex(cl), current))
    ELSE IF tempoChanged(At(sm, i), current, tol)
         THEN segmentLoop(cl, sm, tol, i + 1, i, At(sm, i),
                          Append(acc, Segment(cl, segStartIdx, i, current)))
         ELSE segmentLoop(cl, sm, tol, i + 1, segStartIdx, current, acc)

segmentTempo(cl, rate, toleranceBpm, smoothWindow) ==
    IF Len(cl) < 2 THEN <<>>
    ELSE LET sm == smoothSeries(bpmSeries(cl, rate), smoothWindow)
         IN  segmentLoop(cl, sm, toleranceBpm, 1, 0, At(sm, 0), <<>>)

\* ------------------------------------------------------------------ click lists
\* Largest number of clicks in an enumerated click list.
MaxClicks == 7

\* Tick rate of the enumerated click lists: times are multiples of 0.1 s.
TempoRates == {10}

\* Inter-click gaps in ticks: 0.5 s (120 BPM) and 2.4 / 2.5 / 2.6 s (25, 24
\* and 23.08 BPM, which lie within and beyond 1 BPM of each other).
TempoGaps == {5, 24, 25, 26}

\* the click list that starts at tick t0 and continues with the given gaps
RECURSIVE TimesFrom(_, _)
TimesFrom(t0, gaps) ==
    IF gaps = <<>> THEN <<t0>>
    ELSE <<t0>> \o TimesFrom(t0 + Head(gaps), Tail(gaps))

ClickLists ==
    {<<>>} \cup
    UNION {{TimesFrom(t0, g) : g \in [1..n -> TempoGaps], t0 \in {0, 3}} : n \in 0..(MaxClicks - 1)}

InitTempo ==
    /\ pc = "input"
    /\ IdlePage
    /\ IdleRuns
    /\ IdleMeter
    /\ IdleAnalyze
    /\ IdleDetect
    /\ IdleKMeans
    /\ sr \in TempoRates
    /\ clicks \in ClickLists
    /\ segments = <<>>

\* segmentTempo(clicks, 1.0, 5) as called by the analyze handler
SegmentTempo ==
    /\ pc = "input"
    /\ segments' = segmentTempo(clicks, sr, 1, 5)
    /\ pc' = "done"
    /\ UNCHANGED <<sr, pageVars, clicks, detectVars, kmeansVars, analyzeVars, meterVars, runVars>>

NextTempo == SegmentTempo

SpecTempo == InitTempo /\ [][NextTempo]_vars

\* ------------------------------------------------------------------ 2-means clustering
\* centroid values are JavaScript numbers: rationals <<n, d>>
\* [...values].sort((a, b) => a - b)
sortedValues(vals) == RSort(vals)

\* Math.floor(sorted.length * 0.25)
lowerQuartileIndex(n) == n \div 4

upperQuartileIndexLow(n) == n \div 4

\* Math.floor(sorted.length * 0.75)
upperQuartileIndex(n) == (3 * n) \div 4

\* d1 <= d2 ? 0 : 1, the label of v for centers c1, c2
nearerLabel(v, c1, c2) ==
    IF RLe(RAbs(RSub(v, c1)), RAbs(RSub(v, c2))) THEN 0 ELSE 1

assignLabels(vals, c1, c2) == [i \in 1..Len(vals) |-> nearerLabel(vals[i], c1, c2)]

RECURSIVE sumWhere(_, _, _, _)
sumWhere(vals, labels, lab, i) ==
    IF i > Len(vals) THEN RInt(0)
    ELSE RAdd(IF labels[i] = lab THEN vals[i] ELSE RInt(0),
              sumWhere(vals, labels, lab, i + 1))

countWhere(labels, lab) == Cardinality({i \in 1..Len(labels) : labels[i] = lab})

meanOrZero(vals, labels, lab, c) ==
    IF countWhere(labels, lab) > 0
    THEN RDivInt(sumWhere(vals, labels, lab, 1), countWhere(labels, lab))
    ELSE RInt(0)

\* n ? s / n : c
meanOr(vals, labels, lab, c) ==
    IF countWhere(labels, lab) > 0
    THEN RDivInt(sumWhere(vals, labels, lab, 1), countWhere(labels, lab))
    ELSE c

\* Math.abs(nc - c) < 1e-6
moved(nc, c) == ~ RLt(RAbs(RSub(nc, c)), <<1, 1000000>>)

\* script.js kmeans2: the for loop, t iterations done
RECURSIVE kmeansLoop(_, _, _, _, _, _)
kmeansLoop(vals, iters, t, c1, c2, labels) ==
    IF t >= iters THEN [c1 |-> c1, c2 |-> c2, labels |-> labels]
    ELSE LET lab == assignLabels(vals, c1, c2)
             nc1 == meanOr(vals, lab, 0, c1)
             nc2 == meanOr(vals, lab, 1, c2)
         IN  IF countWhere(lab, 0) = 0 \/ countWhere(lab, 1) = 0
             THEN [c1 |-> nc1, c2 |-> nc2, labels |-> lab]
             ELSE kmeansLoop(vals, iters, t + 1, nc1, nc2, lab)

\* script.js kmeans2(values, iters = 20)
kmeans2(vals, iters) ==
    IF Len(vals) < 2
    THEN [c1 |-> IF vals = <<>> THEN RInt(0) ELSE vals[1],
          c2 |-> IF vals = <<>> THEN RInt(0) ELSE vals[1],
          labels |-> [i \in 1..Len(vals) |-> 0]]
    ELSE LET sorted == sortedValues(vals)
         IN  kmeansLoop(vals, iters, 0,
                        At(sorted, lowerQuartileIndex(Len(sorted))),
                        At(sorted, upperQuartileIndex(Len(sorted))),
                        [i \in 1..Len(vals) |-> 0])

\* part_003 kmeans2: the for loop, it iterations done
RECURSIVE kmeansLoop3(_, _, _, _, _, _)
kmeansLoop3(vals, iters, it, c1, c2, labels) ==
    IF it >= iters THEN [c1 |-> c1, c2 |-> c2, labels |-> labels]
    ELSE LET lab == assignLabels(vals, c1, c2)
             nc1 == meanOr(vals, lab, 0, c1)
             nc2 == meanOr(vals, lab, 1, c2)
         IN  IF ~ moved(nc1, c1) /\ ~ moved(nc2, c2)
             THEN [c1 |-> c1, c2 |-> c2, labels |-> lab]
             ELSE kmeansLoop3(vals, iters, it + 1, nc1, nc2, lab)

\* part_003 kmeans2(values, iters = 20)
kmeans2_003(vals, iters) ==
    IF vals = <<>> THEN [c1 |-> RInt(0), c2 |-> RInt(0), labels |-> <<>>]
    ELSE LET s == sortedValues(vals)
         IN  kmeansLoop3(vals, iters, 0,
                         At(s, lowerQuartileIndex(Len(s))),
                         At(s, upperQuartileIndex(Len(s))),
                         [i \in 1..Len(vals) |-> 0])

\* part_004 kmeans2: the for loop, it iterations done
RECURSIVE kmeansLoop4(_, _, _, _, _, _)
kmeansLoop4(vals, maxIter, it, m0, m1, assign) ==
    IF it >= maxIter THEN [c1 |-> m0, c2 |-> m1, labels |-> assign]
    ELSE LET lab     == assignLabels(vals, m0, m1)
             changed == lab # assign
             nm0     == meanOr(vals, lab, 0, m0)
             nm1     == meanOr(vals, lab, 1, m1)
         IN  IF ~ moved(nm0, m0) /\ ~ moved(nm1, m1) /\ ~ changed
             THEN [c1 |-> m0, c2 |-> m1, labels |-> lab]
             ELSE kmeansLoop4(vals, maxIter, it + 1, nm0, nm1, lab)

\* part_004 kmeans2(values, maxIter = 30); labels[i] = 0 iff index i is in c0
kmeans2_004(vals, maxIter) ==
    IF vals = <<>> THEN [c1 |-> RInt(0), c2 |-> RInt(0), labels |-> <<>>]
    ELSE LET sorted == sortedValues(vals)
             m0     == At(sorted, lowerQuartileIndex(Len(sorted)))
             q3     == At(sorted, upperQuartileIndex(Len(sorted)))
             m1     == IF m0 = q3 THEN RAdd(m0, <<1, 1000000>>) ELSE q3
         IN  kmeansLoop4(vals, maxIter, 0, m0, m1, [i \in 1..Len(vals) |-> 0])

\* Largest number of centroid values in an enumerated list.
MaxValues == 5

\* Centroid values of the enumerated lists (Hz); 0 is the value of a click
\* whose window does not fit the buffer.
CentroidValues == {0, 1, 2, 5}

InitKMeans ==
    /\ pc = "input"
    /\ IdlePage
    /\ IdleRuns
    /\ IdleMeter
    /\ IdleAnalyze
    /\ IdleDetect
    /\ IdleTempo
    /\ sr = 0
    /\ values \in UNION {[1..n -> {RInt(v) : v \in CentroidValues}] : n \in 0..MaxValues}
    /\ km = NoResult /\ km3 = NoResult /\ km4 = NoResult
    /\ isDownbeat = <<>> /\ isDownbeat4 = <<>>

\* the three kmeans2 variants applied to the same values with their default
\* iteration caps
KMeans ==
    /\ pc = "input"
    /\ km' = kmeans2(values, 20)
    /\ km3' = kmeans2_003(values, 20)
    /\ km4' = kmeans2_004(values, 30)
    /\ pc' = "done"
    /\ UNCHANGED <<sr, pageVars, values, isDownbeat, isDownbeat4,
                   detectVars, tempoVars, analyzeVars, meterVars, runVars>>

NextKMeans == KMeans

SpecKMeans == InitKMeans /\ [][NextKMeans]_vars

\* ------------------------------------------------------------------ centroid classifiers
\* script.js (first variant), classifyByCentroidKMeans: the k-means loop,
\* iter iterations done; the centers it leaves
RECURSIVE centersLoop(_, _, _, _)
centersLoop(vals, iter, c0, c1) ==
    IF iter >= 20 THEN <<c0, c1>>
    ELSE LET lab == assignLabels(vals, c0, c1)
             nc0 == meanOr(vals, lab, 0, c0)
             nc1 == meanOr(vals, lab, 1, c1)
         IN  IF ~ moved(nc0, c0) /\ ~ moved(nc1, c1) THEN <<c0, c1>>
             ELSE centersLoop(vals, iter + 1, nc0, nc1)

\* cluster0.length <= cluster1.length ? 0 : 1
smallerCluster(labels) == IF countWhere(labels, 0) <= countWhere(labels, 1) THEN 0 ELSE 1

\* the flags for the final assignment: cluster === downCluster
flagsOf(labels, downCluster) == [i \in 1..Len(labels) |-> labels[i] = downCluster]

\* the assignment to the final centers and the flags derived from it
flagSmaller(labels) == flagsOf(labels, smallerCluster(labels))

assignTo(vals, cs) == assignLabels(vals, cs[1], cs[2])

\* classifyByCentroidKMeans(events), events given by their centroids: the
\* isDownbeat flag of each event
classifyByCentroidKMeans(vals) ==
    IF vals = <<>> THEN <<>>
    ELSE flagSmaller(
             assignTo(vals,
                      centersLoop(vals, 0,
                                  At(sortedValues(vals), lowerQuartileIndex(Len(vals))),
                                  At(sortedValues(vals), upperQuartileIndex(Len(vals))))))

\* Math.abs(n0 - n1) <= Math.max(2, Math.floor(events.length * 0.02))
similarSizes(n0, n1, n) == Abs(n0 - n1) <= Max(2, (2 * n) \div 100)

\* c.reduce((s, i) => s + cents[i], 0) / (n || 1)
clusterMean(vals, labels, lab) ==
    RDivInt(sumWhere(vals, labels, lab, 1), Max(1, countWhere(labels, lab)))

\* the downCluster of classifyDownbeatsByCentroid
downCluster4(vals, labels) ==
    IF similarSizes(countWhere(labels, 0), countWhere(labels, 1), Len(vals))
    THEN (IF RLe(clusterMean(vals, labels, 1), clusterMean(vals, labels, 0)) THEN 0 ELSE 1)
    ELSE (IF countWhere(labels, 0) < countWhere(labels, 1) THEN 0 ELSE 1)

flagDown4(vals, labels) == flagsOf(labels, downCluster4(vals, labels))

\* part_004 classifyDownbeatsByCentroid(events), events given by their
\* centroids: the isDownbeat flag of each event
classifyDownbeatsByCentroid(vals) == flagDown4(vals, kmeans2_004(vals, 30).labels)

InitClassify ==
    /\ pc = "input"
    /\ IdlePage
    /\ IdleRuns /\ IdleMeter /\ IdleAnalyze /\ IdleDetect /\ IdleTempo
    /\ sr = 0
    /\ values \in UNION {[1..n -> {RInt(v) : v \in CentroidValues}] : n \in 0..MaxValues}
    /\ km = NoResult /\ km3 = NoResult /\ km4 = NoResult
    /\ isDownbeat = <<>> /\ isDownbeat4 = <<>>

\* the two centroid classifiers applied to the same events
Classify ==
    /\ pc = "input"
    /\ isDownbeat' = classifyByCentroidKMeans(values)
    /\ isDownbeat4' = classifyDownbeatsByCentroid(values)
    /\ pc' = "done"
    /\ UNCHANGED <<sr, pageVars, values, km, km3, km4,
                   detectVars, tempoVars, analyzeVars, meterVars, runVars>>

NextClassify == Classify

SpecClassify == InitClassify /\ [][NextClassify]_vars

\* ------------------------------------------------------------------ script.js (second variant): meter and downbeats
\* (count0 <= count1) ? 0 : 1
minorityLabelFlipped(count0, count1) == IF count0 <= count1 THEN 1 ELSE 0

minorityLabel(count0, count1) == IF count0 <= count1 THEN 0 ELSE 1

\* idxs: the 0-based indices carrying downLabel, in order
RECURSIVE indicesOf(_, _, _)
indicesOf(labels, lab, i) ==
    IF i >= Len(labels) THEN <<>>
    ELSE (IF At(labels, i) = lab THEN <<i>> ELSE <<>>) \o indicesOf(labels, lab, i + 1)

indexGaps(idxs) == [i \in 1..(Len(idxs) - 1) |-> idxs[i + 1] - idxs[i]]

\* a Map used as a histogram: keys in insertion order with their counts
RECURSIVE histogram(_, _, _, _)
histogram(gaps, lo, hi, i) ==
    IF i < 1 THEN <<>>
    ELSE LET h == histogram(gaps, lo, hi, i - 1)
             g == gaps[i]
         IN  IF g < lo \/ g > hi THEN h
             ELSE IF \E k \in 1..Len(h) : h[k].key = g
                  THEN [k \in 1..Len(h) |->
                           IF h[k].key = g THEN [key |-> g, count |-> h[k].count + 1]
                           ELSE h[k]]
                  ELSE Append(h, [key |-> g, count |-> 1])

\* for (const [g, c] of hist.entries()) if (c > bestCount) { best = g; bestCount = c; }
RECURSIVE modeOf(_, _, _, _)
modeOf(h, i, best, bestCount) ==
    IF i > Len(h) THEN best
    ELSE IF h[i].count > bestCount
         THEN modeOf(h, i + 1, h[i].key, h[i].count)
         ELSE modeOf(h, i + 1, best, bestCount)

\* inferBeatsPerBar(clicks, labels, true)
inferBeatsPerBar(labels) ==
    LET count0    == countWhere(labels, 0)
        count1    == Len(labels) - count0
        downLabel == minorityLabel(count0, count1)
        idxs      == indicesOf(labels, downLabel, 0)
    IN  IF Len(idxs) < 2 THEN [beatsPerBar |-> 4, downLabel |-> downLabel]
        ELSE [beatsPerBar |-> modeOf(histogram(indexGaps(idxs), 2, 16, Len(idxs) - 1), 1, 4, -1),
              downLabel |-> downLabel]

\* (i - phase) % beatsPerBar === 0 in the scoring loop
isGridDown(i, phase, beatsPerBar) == (i - phase) % beatsPerBar = 0

\* twice the score of one phase (the code adds 2, -1 and -0.5)
RECURSIVE phaseScore2(_, _, _, _, _)
phaseScore2(labels, downLabel, beatsPerBar, phase, i) ==
    IF i >= Len(labels) THEN 0
    ELSE LET grid == isGridDown(i, phase, beatsPerBar)
             tone == At(labels, i) = downLabel
         IN  (IF grid /\ tone THEN 4
              ELSE IF grid /\ ~ tone THEN -2
              ELSE IF ~ grid /\ tone THEN -1
              ELSE 0)
             + phaseScore2(labels, downLabel, beatsPerBar, phase, i + 1)

\* for (phase = 0; phase < beatsPerBar; phase++) if (score > bestScore) ...
\* (bestScore starts at -Infinity: phase 0 always sets it)
RECURSIVE bestPhaseFrom(_, _, _, _, _, _)
bestPhaseFrom(labels, downLabel, beatsPerBar, phase, bestPhase, bestScore2) ==
    IF phase >= beatsPerBar THEN bestPhase
    ELSE LET score == phaseScore2(labels, downLabel, beatsPerBar, phase, 0)
         IN  IF phase = 0 \/ score > bestScore2
             THEN bestPhaseFrom(labels, downLabel, beatsPerBar, phase + 1, phase, score)
             ELSE bestPhaseFrom(labels, downLabel, beatsPerBar, phase + 1, bestPhase, bestScore2)

onGridIgnoringPhase(i, bestPhase, beatsPerBar) == i % beatsPerBar = 0

\* (i - bestPhase) % beatsPerBar === 0 when the downbeat set is built
onGrid(i, bestPhase, beatsPerBar) == (i - bestPhase) % beatsPerBar = 0

\* alignDownbeatsByPhase(clicks, labels, beatsPerBar, downLabel)
alignDownbeatsByPhase(cl, labels, beatsPerBarArg, downLabel) ==
    LET beatsPerBar == IF beatsPerBarArg < 2 THEN 4 ELSE beatsPerBarArg
        bestPhase   == bestPhaseFrom(labels, downLabel, beatsPerBar, 0, 0, 0)
    IN  [bestPhase |-> bestPhase,
         downbeatsSet |-> {cl[i].sampleIndex :
                              i \in {k \in 1..Len(cl) : onGrid(k - 1, bestPhase, beatsPerBar)}}]

\* ------------------------------------------------------------------ script.js (second variant): tempo segmentation
\* the instantaneous bpm series of detectTempoSegments
bpmsOf(cl) ==
    [i \in 1..(Len(cl) - 1) |->
        LET dt == RSub(cl[i + 1].time, cl[i].time)
        IN  IF RLt(RInt(0), dt) THEN Rat(60 * dt[2], dt[1]) ELSE RInt(0)]

\* median smoothing (window 5): slice[Math.floor(slice.length / 2)]
smoothOf(bpms) ==
    [i \in 1..Len(bpms) |->
        LET a     == Max(0, (i - 1) - 2)
            b     == Min(Len(bpms) - 1, (i - 1) + 2)
            slice == RSort([k \in 1..(b - a + 1) |-> At(bpms, a + k - 1)])
        IN  At(slice, Len(slice) \div 2)]

\* closeSegment(endBeatExclusive)
closeSegment(cl, acc, segStartBeat, segBpm, endBeatExclusive, minBeatsPerSeg) ==
    IF endBeatExclusive - segStartBeat < minBeatsPerSeg THEN acc
    ELSE Append(acc, [time |-> r3(At(cl, segStartBeat).time), bpm |-> r1(segBpm)])

RECURSIVE tempoLoop(_, _, _, _, _, _, _, _)
tempoLoop(cl, smooth, tol, minBeats, i, segStartBeat, segBpm, acc) ==
    IF i >= Len(smooth)
    THEN closeSegment(cl, acc, segStartBeat, segBpm, Len(smooth), minBeats)
    ELSE IF RLt(RInt(tol), RAbs(RSub(At(smooth, i), segBpm)))
         THEN tempoLoop(cl, smooth, tol, minBeats, i + 1, i, At(smooth, i),
                        closeSegment(cl, acc, segStartBeat, segBpm, i, minBeats))
         ELSE tempoLoop(cl, smooth, tol, minBeats, i + 1, segStartBeat, segBpm, acc)

\* detectTempoSegments(clicks, toleranceBpm = 1.0, minBeatsPerSeg = 4)
detectTempoSegments(cl, toleranceBpm, minBeatsPerSeg) ==
    IF Len(cl) < 2 THEN <<>>
    ELSE LET smooth == smoothOf(bpmsOf(cl))
             segs   == tempoLoop(cl, smooth, toleranceBpm, minBeatsPerSeg, 1, 0,
                                 At(smooth, 0), <<>>)
         IN  IF segs = <<>> /\ Len(smooth) > 0
             THEN <<[time |-> r3(At(cl, 0).time), bpm |-> r1(At(smooth, 0))]>>
             ELSE segs

\* ------------------------------------------------------------------ script.js (second variant): analyze
\* detectClicksAdaptive and centroidAt applied to the decoded file: the file
\* is given by what they return for it, the sample indices of its clicks
\* (strictly increasing, see AdaptiveStrictlyIncreasing) and the centroid
\* measured at each of them
detectedOf(file) ==
    [i \in 1..Len(file.sampleIndex) |->
        [time |-> Rat(file.sampleIndex[i], file.sr),
         sampleIndex |-> file.sampleIndex[i]]]

keepClicks(old) == old

\* clicks = [] before the centroid loop
resetClicks(old) == <<>>

\* the centroid loop: clicks.push({ ...c, centroid })
RECURSIVE pushCentroids(_, _, _, _)
pushCentroids(acc, det, file, i) ==
    IF i > Len(det) THEN acc
    ELSE pushCentroids(
             Append(acc, [time |-> det[i].time,
                          sampleIndex |-> det[i].sampleIndex,
                          centroid |-> file.centroid[i]]),
             det, file, i + 1)

\* the module-level clicks after the centroid loop of analyze()
clicksAfter(old, file) == pushCentroids(resetClicks(old), detectedOf(file), file, 1)

\* what analyze() computes from the module-level clicks: the classification
\* it stores and the report it prints
analysisOf(cl) ==
    LET kmr    == kmeans2([i \in 1..Len(cl) |-> RInt(cl[i].centroid)], 20)
        labels == kmr.labels
        inf    == inferBeatsPerBar(labels)
        al     == alignDownbeatsByPhase(cl, labels, inf.beatsPerBar, inf.downLabel)
        segs   == detectTempoSegments(cl, 1, 4)
    IN  [classification |->
             [beatsPerBar |-> inf.beatsPerBar, bestPhase |-> al.bestPhase,
              downbeatsSet |-> al.downbeatsSet, tempoSegments |-> segs,
              clusterCenters |-> [c1 |-> r1(kmr.c1), c2 |-> r1(kmr.c2)],
              downbeatClusterLabel |-> inf.downLabel],
         output |->
             [beatsPerBar |-> inf.beatsPerBar, tempoSegments |-> segs,
              clusters |-> [c1 |-> r1(kmr.c1), c2 |-> r1(kmr.c2)],
              phase |-> al.bestPhase,
              labels |-> labels,
              items |-> [i \in 1..Len(cl) |->
                            [time |-> r3(cl[i].time),
                             centroid |-> r1(RInt(cl[i].centroid)),
                             downbeat |-> cl[i].sampleIndex \in al.downbeatsSet]]]]

\* Largest number of clicks in an enumerated file.
MaxBeats == 9

\* Centroid values of the clicks of an enumerated file (Hz).
ToneValues == {2, 7}

\* Sample rate of the enumerated files and their inter-click gaps in
\* samples: 0.6 s (100 BPM) and 0.5 s (120 BPM).
FileRate == 44100
FileGaps == {26460, 22050}

\* evenly spaced files: first click at sample 441
AnalyzeInputs ==
    UNION {{[sr |-> FileRate,
             sampleIndex |-> [i \in 1..n |-> 441 + (i - 1) * g],
             centroid |-> c] : c \in [1..n -> ToneValues], g \in FileGaps} : n \in 0..MaxBeats}

InitAnalyze ==
    /\ pc = "input"
    /\ IdlePage
    /\ IdleRuns
    /\ IdleMeter
    /\ IdleDetect /\ IdleTempo /\ IdleKMeans
    /\ sr = 0
    /\ fileInput \in AnalyzeInputs
    /\ modClicks = <<>>
    /\ classification = Null
    /\ output = Null

\* analyze() on the chosen file, from the decode to the final setStatus
Analyze ==
    /\ pc = "input"
    /\ modClicks' = clicksAfter(modClicks, fileInput)
    /\ classification' = analysisOf(modClicks').classification
    /\ output' = analysisOf(modClicks').output
    /\ pc' = "done"
    /\ UNCHANGED <<sr, pageVars, fileInput, detectVars, tempoVars, kmeansVars, meterVars, runVars>>

NextAnalyze == Analyze

SpecAnalyze == InitAnalyze /\ [][NextAnalyze]_vars

\* ------------------------------------------------------------------ part_003: beats-per-bar
\* Math.round(v)
roundInt(x) == RRound(x, 1)[1]

\* modeInt(arr, minVal, maxVal): a Map of counts in insertion order, first
\* key with the highest count, minVal when no value is in range
modeInt(arr, minVal, maxVal) ==
    modeOf(histogram([i \in 1..Len(arr) |-> roundInt(arr[i])], minVal, maxVal, Len(arr)),
           1, minVal, -1)

\* autoBeatsPerBar(clicks, downbeatIdxs, segments); clicks in ticks at rate
autoBeatsPerBar(cl, rate, downbeatIdxs, segs) ==
    LET bpm0 == IF segs # <<>> THEN segs[1].bpm ELSE RInt(0)
        \* beatSec = 60 / bpm, or the median gap; 0 and Infinity return 4
        dts  == [i \in 1..Max(0, Len(cl) - 1) |-> Rat(cl[i + 1] - cl[i], rate)]
        usable == IF segs # <<>> THEN bpm0[1] # 0 ELSE median(dts)[1] # 0
        \* est = sec / beatSec
        est(a, b) ==
            IF segs # <<>>
            THEN RMul(Rat(At(cl, b) - At(cl, a), rate), Rat(bpm0[1], bpm0[2] * 60))
            ELSE RMul(Rat(At(cl, b) - At(cl, a), rate),
                      Rat(median(dts)[2], median(dts)[1]))
        candidates == [i \in 1..Max(0, Len(downbeatIdxs) - 1) |->
                          est(downbeatIdxs[i], downbeatIdxs[i + 1])]
    IN  IF ~ usable THEN 4
        ELSE LET bpb == modeInt(candidates, 2, 12)
             IN  IF bpb = 0 THEN 4 ELSE bpb

\* ------------------------------------------------------------------ part_000: beats-per-bar
\* the distances between consecutive downbeats, in ticks
RECURSIVE downbeatDistances(_, _, _)
downbeatDistances(bs, i, lastDownbeat) ==
    IF i > Len(bs) THEN <<>>
    ELSE IF bs[i].isDownbeat
         THEN (IF lastDownbeat # <<>> THEN <<bs[i].time - lastDownbeat[1]>> ELSE <<>>)
              \o downbeatDistances(bs, i + 1, <<bs[i].time>>)
         ELSE downbeatDistances(bs, i + 1, lastDownbeat)

RECURSIVE sumSeq(_)
sumSeq(q) == IF q = <<>> THEN 0 ELSE Head(q) + sumSeq(Tail(q))

\* averageBeatInterval(beats), in ticks; only called with at least two beats
averageBeatInterval(bs) == Rat(bs[Len(bs)].time - bs[1].time, Len(bs) - 1)

\* detectBeatsPerBar(beats): <<>> for null
detectBeatsPerBar(bs) ==
    LET distances == downbeatDistances(bs, 1, <<>>)
    IN  IF distances = <<>> THEN <<>>
        ELSE LET avgBar  == Rat(sumSeq(distances), Len(distances))
                 avgBeat == averageBeatInterval(bs)
             IN  <<roundInt(RMul(avgBar, <<avgBeat[2], avgBeat[1]>>))>>

\* Largest number of beats in an enumerated labelled click list.
MaxMeterBeats == 6

\* Inter-click gaps of the labelled click lists, in ticks of 0.1 s.
MeterGaps == {5, 6}

LabelledLists ==
    UNION {{[i \in 1..n |-> [time |-> TimesFrom(0, g)[i], isDownbeat |-> d[i]]] :
               g \in [1..(n - 1) -> MeterGaps], d \in [1..n -> BOOLEAN]} : n \in 1..MaxMeterBeats}
    \cup {<<>>}

InitMeter ==
    /\ pc = "input"
    /\ IdlePage
    /\ IdleRuns
    /\ IdleDetect /\ IdleTempo /\ IdleKMeans /\ IdleAnalyze
    /\ sr = 10
    /\ beats \in LabelledLists
    /\ meter = NoMeter

\* the three estimators applied to the same click list and labelling
\* (label 1 / downbeat index / isDownbeat)
EstimateMeter ==
    /\ pc = "input"
    /\ LET times  == [i \in 1..Len(beats) |-> beats[i].time]
           labels == [i \in 1..Len(beats) |-> IF beats[i].isDownbeat THEN 1 ELSE 0]
       IN  meter' = [infer  |-> <<inferBeatsPerBar(labels).beatsPerBar>>,
                     auto   |-> <<autoBeatsPerBar(times, sr, indicesOf(labels, 1, 0),
                                                  segmentTempo(times, sr, 1, 5))>>,
                     detect |-> detectBeatsPerBar(beats)]
    /\ pc' = "done"
    /\ UNCHANGED <<sr, pageVars, beats, detectVars, tempoVars, kmeansVars, analyzeVars, runVars>>

NextMeter == EstimateMeter

SpecMeter == InitMeter /\ [][NextMeter]_vars

\* ------------------------------------------------------------------ part_003: downbeat classification and the analyze handler
\* scoreDownbeatMask(clickCount, bpb, mask), for a non-empty mask
scoreDownbeatMask(clickCount, bpb, mask) ==
    LET correct    == Cardinality({i \in 0..(clickCount - 1) : At(mask, i) = (i % bpb = 0)})
        downCount  == Cardinality({i \in 0..(clickCount - 1) : At(mask, i)})
        targetDown == Rat(clickCount, bpb)
        downPenalty ==
            RMul(RAbs(RSub(RInt(downCount), targetDown)),
                 IF RLt(RInt(1), targetDown) THEN <<targetDown[2], targetDown[1]>>
                 ELSE RInt(1))
    IN  RSub(RInt(correct), RMul(downPenalty, Rat(clickCount, 2)))

\* const pick = sA >= sB ? maskA : maskB; an empty mask scores -Infinity on
\* both sides, and sA >= sB holds
pickMask(maskA, maskB, bpb, n) ==
    IF n = 0 \/ RLe(scoreDownbeatMask(n, bpb, maskB), scoreDownbeatMask(n, bpb, maskA))
    THEN maskA ELSE maskB

\* if (forceFirstDownbeat && downMask.length) downMask[0] = true
forceFirst(picked, forceFirstDownbeat) ==
    IF forceFirstDownbeat /\ picked # <<>> THEN [picked EXCEPT ![1] = TRUE] ELSE picked

\* the smaller cluster's indices, cluster 0 on ties
initDownIdxs(idxA, idxB) == IF Len(idxA) <= Len(idxB) THEN idxA ELSE idxB

\* the indices where the mask is true
trueIndices(mask) == indicesOf([i \in 1..Len(mask) |-> IF mask[i] THEN 1 ELSE 0], 1, 0)

\* the second beats-per-bar estimate and the returned object
classified(downMask, kmr, segs, stClicks, rate) ==
    [downMask |-> downMask,
     beatsPerBar |-> autoBeatsPerBar(stClicks, rate, trueIndices(downMask), segs),
     kmeans |-> kmr]

\* classifyDownbeats after its k-means call
classifyLabels(kmr, segs, forceFirstDownbeat, stClicks, rate) ==
    classified(
        forceFirst(
            pickMask([i \in 1..Len(kmr.labels) |-> kmr.labels[i] = 0],
                     [i \in 1..Len(kmr.labels) |-> kmr.labels[i] = 1],
                     autoBeatsPerBar(stClicks, rate,
                                     initDownIdxs(indicesOf(kmr.labels, 0, 0),
                                                  indicesOf(kmr.labels, 1, 0)),
                                     segs),
                     Len(kmr.labels)),
            forceFirstDownbeat),
        kmr, segs, stClicks, rate)

\* classifyDownbeats(events, segments, forceFirstDownbeat); stClicks is state.clicks
classifyDownbeats(events, segs, forceFirstDownbeat, stClicks, rate) ==
    classifyLabels(kmeans2_003([i \in 1..Len(events) |-> RInt(events[i].centroid)], 20),
                   segs, forceFirstDownbeat, stClicks, rate)

\* the report of a run that found fewer than two clicks
shortReport(n) ==
    [detectedClicks |-> n, analyzedClicks |-> 0, beatsPerBar |-> <<>>,
     centroidClusters |-> <<>>, tempoSegments |-> <<>>, items |-> <<>>]

\* the end of the handler: the state assignments and the JSON summary
finished003(st1, events, segs, cls) ==
    [state |-> [st1 EXCEPT !.events = events, !.segments = segs,
                           !.downbeatMask = cls.downMask,
                           !.beatsPerBar = cls.beatsPerBar],
     output |->
         [detectedClicks |-> Len(st1.clicks), analyzedClicks |-> Len(events),
          beatsPerBar |-> <<cls.beatsPerBar>>,
          centroidClusters |-> <<cls.kmeans.c1, cls.kmeans.c2>>,
          tempoSegments |-> segs,
          items |-> [i \in 1..Len(events) |->
                        [time |-> events[i].time,
                         centroid |-> events[i].centroid,
                         downbeat |-> cls.downMask[i]]]]]

\* the handler from the centroid loop on, for two or more clicks
analyzed003(st1, events, segs, force, rate) ==
    finished003(st1, events, segs,
                classifyDownbeats(events, segs, force, st1.clicks, rate))

\* the analyze handler of part_003 on a decoded file with the given
\* forceFirstDownbeat setting: the new module state and the report
handler003(st, file, force) ==
    IF Len(file.sampleIndex) < 2
    THEN [state |-> [st EXCEPT !.clicks = file.sampleIndex, !.events = <<>>,
                               !.segments = <<>>, !.downbeatMask = <<>>],
          output |-> shortReport(Len(file.sampleIndex))]
    ELSE analyzed003([st EXCEPT !.clicks = file.sampleIndex],
                     [i \in 1..Len(file.sampleIndex) |->
                         [time |-> file.sampleIndex[i], centroid |-> file.centroid[i]]],
                     segmentTempo(file.sampleIndex, file.sr, 1, 5),
                     force, file.sr)

\* ------------------------------------------------------------------ successive runs
\* Largest number of analysis runs executed one after the other.
MaxRuns == 3

\* the files that are analysed repeatedly: up to two clicks 0.6 s apart,
\* first click at sample 441
RunFiles ==
    UNION {{[sr |-> FileRate,
             sampleIndex |-> [i \in 1..n |-> 441 + (i - 1) * 26460],
             centroid |-> c] : c \in [1..n -> ToneValues]} : n \in {0, 1, 2}}

\* the name under which the runs of the part_003 handler are recorded
handler003Name(force) == IF force THEN "part_003 forceFirstDownbeat" ELSE "part_003"

RunKeys == {"script", "part_003", "part_003 forceFirstDownbeat"} \X RunFiles

\* the first report recorded for a handler and file, <<>> if none
firstOf(log, handler, file) == log[<<handler, file>>]

remember(log, handler, file, report) ==
    IF firstOf(log, handler, file) # <<>> THEN log
    ELSE [log EXCEPT ![<<handler, file>>] = <<report>>]

InitRuns ==
    /\ pc = "idle"
    /\ IdlePage
    /\ IdleDetect /\ IdleTempo /\ IdleKMeans /\ IdleMeter
    /\ sr = 0
    /\ fileInput = NoFile
    /\ modClicks = <<>>
    /\ classification = Null
    /\ output = Null
    /\ state = InitialState003
    /\ output003 = Null
    /\ runs = 0
    /\ firstOutput = [k \in RunKeys |-> <<>>]
    /\ lastRun = NoRun

\* the assignments of one run of analyze(), given the clicks and the analysis
finishRun(f, cl, an) ==
    /\ fileInput' = f
    /\ modClicks' = cl
    /\ classification' = an.classification
    /\ output' = an.output
    /\ firstOutput' = remember(firstOutput, "script", f, an.output)
    /\ lastRun' = [handler |-> "script",
                   repeated |-> firstOf(firstOutput, "script", f) # <<>>,
                   afterOther |-> modClicks # <<>> /\ modClicks # cl]

analyzed(f, cl) == finishRun(f, cl, analysisOf(cl))

\* script.js (second variant): one click on processBtn, analyze() run to its end
AnalyzeRun ==
    /\ runs < MaxRuns
    /\ \E f \in RunFiles : analyzed(f, clicksAfter(modClicks, f))
    /\ runs' = runs + 1
    /\ pc' = "script"
    /\ UNCHANGED <<sr, pageVars, state, output003, detectVars, tempoVars, kmeansVars, meterVars>>

\* the assignments of one run of the part_003 handler, given its result
finishRun003(f, force, r) ==
    /\ fileInput' = f
    /\ state' = r.state
    /\ output003' = r.output
    /\ firstOutput' = remember(firstOutput, handler003Name(force), f, r.output)
    /\ lastRun' = [handler |-> handler003Name(force),
                   repeated |-> firstOf(firstOutput, handler003Name(force), f) # <<>>,
                   afterOther |-> state.clicks # <<>> /\ state.clicks # f.sampleIndex]

\* part_003: one click on analyzeBtn, the handler run to its end
Analyze003Run ==
    /\ runs < MaxRuns
    /\ \E f \in RunFiles, force \in BOOLEAN : finishRun003(f, force, handler003(state, f, force))
    /\ runs' = runs + 1
    /\ pc' = "part_003"
    /\ UNCHANGED <<sr, pageVars, modClicks, classification, output, detectVars, tempoVars,
                   kmeansVars, meterVars>>

NextRuns == AnalyzeRun \/ Analyze003Run

SpecRuns == InitRuns /\ [][NextRuns]_vars

\* ------------------------------------------------------------------ scenario click trains
\* Largest number of intervals in one constant-tempo run of a click train.
MaxRunLen == 6

\* Inter-click gaps in samples at FileRate: 0.5 s (120 BPM), 3/7 s (140 BPM)
\* and 0.6 s (100 BPM).
Gap120 == 22050
Gap140 == 18900
Gap100 == 26460

\* n copies of g
Repeat(g, n) == [i \in 1..n |-> g]

\* the decoded file whose clicks follow each other with the given gaps
TrainOf(gaps, c) ==
    [sr |-> FileRate, sampleIndex |-> TimesFrom(441, gaps), centroid |-> c]

\* a single tone, or a high tone on every fourth click
TonePatterns(n) ==
    {[i \in 1..n |-> 2], [i \in 1..n |-> IF i % 4 = 1 THEN 7 ELSE 2]}

\* 120 BPM for n1 intervals, then 140 BPM for n2 >= 3 intervals
StepTrains ==
    UNION {{TrainOf(Repeat(Gap120, n1) \o Repeat(Gap140, n2), c) : c \in TonePatterns(n1 + n2 + 1)} :
              n1 \in 1..MaxRunLen, n2 \in 3..MaxRunLen}

\* uniform 120 BPM, every click with the same centroid
UniformTrains ==
    {TrainOf(Repeat(Gap120, n), [i \in 1..(n + 1) |-> tone]) :
        n \in 1..(2 * MaxRunLen), tone \in ToneValues}

\* exactly three clicks, any of the gaps, any centroids
ThreeClickTrains ==
    {TrainOf(g, c) : g \in [1..2 -> {Gap120, Gap140, Gap100}], c \in [1..3 -> ToneValues]}

\* Inter-click gaps in samples at FileRate of the slow trains: 2.4 s (25 BPM)
\* and 2.6 s (23.08 BPM), more than 1 BPM apart.
Gap25 == 105840
Gap23 == 114660

\* eight clicks, every interval at 25 or at 23.08 BPM, a single tone
SlowTrains ==
    {TrainOf(g, [i \in 1..8 |-> 2]) : g \in [1..7 -> {Gap25, Gap23}]}

ScenarioFiles == StepTrains \cup UniformTrains \cup ThreeClickTrains \cup SlowTrains

InitScenario ==
    /\ pc = "input"
    /\ IdlePage
    /\ IdleDetect /\ IdleTempo /\ IdleKMeans /\ IdleMeter
    /\ sr = 0
    /\ fileInput \in ScenarioFiles
    /\ modClicks = <<>>
    /\ classification = Null
    /\ output = Null
    /\ state = InitialState003
    /\ output003 = Null
    /\ runs = 0
    /\ firstOutput = <<>>
    /\ lastRun = NoRun

\* the assignments of analyze(), given the clicks and the analysis
finishScenario(cl, an) ==
    /\ modClicks' = cl
    /\ classification' = an.classification
    /\ output' = an.output

analyzedScenario(cl) == finishScenario(cl, analysisOf(cl))

\* script.js (second variant): analyze() on the scenario file
AnalyzeScenario ==
    /\ pc = "input"
    /\ analyzedScenario(clicksAfter(modClicks, fileInput))
    /\ pc' = "script done"
    /\ UNCHANGED <<sr, pageVars, fileInput, state, output003, runs, firstOutput, lastRun,
                   detectVars, tempoVars, kmeansVars, meterVars>>

\* the assignments of the part_003 handler, given its result
finishScenario003(r) ==
    /\ state' = r.state
    /\ output003' = r.output

\* part_003: the analyze handler on the scenario file
Analyze003Scenario ==
    /\ pc = "script done"
    /\ \E force \in BOOLEAN : finishScenario003(handler003(state, fileInput, force))
    /\ pc' = "done"
    /\ UNCHANGED <<sr, pageVars, analyzeVars, runs, firstOutput, lastRun,
                   detectVars, tempoVars, kmeansVars, meterVars>>

NextScenario == AnalyzeScenario \/ Analyze003Scenario

SpecScenario == InitScenario /\ [][NextScenario]_vars

\* ------------------------------------------------------------------ script.js (second variant): analyze on a sample buffer
\* Window lengths handed to centroidAt (2048 in analyze, scaled to the
\* enumerated buffers).
FftSizes == {4}

\* What the analyser can yield for a window: 0 when no bin of the band has
\* energy (sum = 0), a centroid in Hz otherwise.
AnalyserTones == {0} \cup ToneValues

\* centroidAt(samples, sr, sampleIndex, fftSize); tone is what the band
\* limited centroid of the analysed window comes to
centroidAt(buf, sampleIndex, fftSize, tone) ==
    IF sampleIndex + fftSize >= Len(buf) THEN 0 ELSE tone

\* script.js (first variant) analyzeCentroidOffline(samples, sr, timeSec),
\* with start = Math.floor(timeSec * sr) and fftSize (2048 in the code) given
analyzeCentroidOffline(buf, start, fftSize, tone) ==
    IF start < 0 \/ start + fftSize >= Len(buf) THEN 0 ELSE tone

\* part_003 centroidForClick(samples, sr, timeSec), likewise
centroidForClick(buf, start, fftSize, tone) ==
    IF start < 0 \/ start + fftSize >= Len(buf) THEN 0 ELSE tone

\* the decoded buffer as analyze() sees it: the clicks of
\* detectClicksAdaptive and the centroid of each
decoded(buf, rate, det, fftSize, tn) ==
    [sr |-> rate, sampleIndex |-> det,
     centroid |-> [i \in 1..Len(det) |-> centroidAt(buf, det[i], fftSize, tn[i])]]

InitBuffer ==
    /\ pc = "input"
    /\ IdlePage
    /\ IdleRuns /\ IdleMeter /\ IdleAnalyze /\ IdleTempo /\ IdleKMeans
    /\ sr = 200
    /\ \E p1, p2 \in 0..(BufLen - 1) :
         /\ p1 < p2
         /\ \E a1, a2 \in Amps : samples = PulseBuffer(p1, a1, p2, a2, p2, a2)
    /\ clickIdx = <<>>
    /\ clickIdx4 = <<>>
    /\ detected = <<>>
    /\ tones \in [1..2 -> AnalyserTones]
    /\ IdleCentroid

\* the assignments of analyze() on the buffer, given the detected clicks
analyzedBuffer(det, cl) ==
    /\ detected' = det
    /\ finishScenario(cl, analysisOf(cl))

\* analyze() from detectClicksAdaptive to the final setStatus
AnalyzeBuffer ==
    /\ pc = "input"
    /\ \E fftSize \in FftSizes :
         analyzedBuffer(detectClicksAdaptive(samples, sr),
                        clicksAfter(modClicks,
                                    decoded(samples, sr, detectClicksAdaptive(samples, sr),
                                            fftSize, tones)))
    /\ pc' = "done"
    /\ UNCHANGED <<sr, pageVars, samples, clickIdx, clickIdx4, tones, window, centroid, features,
                   fileInput,
                   tempoVars, kmeansVars, meterVars, runVars>>

NextBuffer == AnalyzeBuffer

\* Largest length of the buffers handed to the centroid functions.
MaxWindowBuf == 10

\* Window lengths of the centroid functions (2048 in the code, scaled).
WindowLens == {2, 4}

InitCentroid ==
    /\ pc = "input"
    /\ IdlePage
    /\ IdleRuns /\ IdleMeter /\ IdleAnalyze /\ IdleTempo /\ IdleKMeans
    /\ sr = 0
    /\ samples \in UNION {[1..n -> {1}] : n \in 0..MaxWindowBuf}
    /\ clickIdx = <<>> /\ clickIdx4 = <<>> /\ detected = <<>>
    /\ tones \in [1..1 -> AnalyserTones]
    /\ window \in [start : (-1)..(MaxWindowBuf + 1), fftSize : WindowLens]
    /\ centroid = NoCentroid
    /\ features = NoEvents

\* the three centroid functions applied to the same window
Centroid ==
    /\ pc = "input"
    /\ centroid' =
           [offline  |-> analyzeCentroidOffline(samples, window.start, window.fftSize, tones[1]),
            at       |-> centroidAt(samples, window.start, window.fftSize, tones[1]),
            forClick |-> centroidForClick(samples, window.start, window.fftSize, tones[1])]
    /\ pc' = "done"
    /\ UNCHANGED <<sr, pageVars, samples, clickIdx, clickIdx4, detected, tones, window, features,
                   tempoVars, kmeansVars, analyzeVars, meterVars, runVars>>

NextCentroid == Centroid

SpecCentroid == InitCentroid /\ [][NextCentroid]_vars

\* ------------------------------------------------------------------ feature extraction
\* The sample indices i below 100 for which the double (i / sr) * sr is
\* less than i at sr = 200, so that Math.floor gives i - 1.
RoundsDown == {29, 57, 58}

\* Math.floor(time * sr) for the click time i / sr
startOf(i) == IF i \in RoundsDown THEN i - 1 ELSE i

\* script.js (first variant), processBtn handler: for (const t of clickTimes)
\* events.push({ time: t, centroid })
RECURSIVE featureLoop(_, _, _, _, _)
featureLoop(buf, cl, fftSize, tn, i) ==
    IF i > Len(cl) THEN <<>>
    ELSE <<[time |-> cl[i],
            centroid |-> analyzeCentroidOffline(buf, startOf(cl[i]), fftSize, tn[i])]>>
         \o featureLoop(buf, cl, fftSize, tn, i + 1)

\* part_003, analyze handler: for (let i = 0; i < maxAnalyze; i++)
\* events.push({ time: t, centroid })
RECURSIVE featureLoop003(_, _, _, _, _, _)
featureLoop003(buf, cl, fftSize, tn, maxAnalyze, i) ==
    IF i > maxAnalyze THEN <<>>
    ELSE <<[time |-> cl[i],
            centroid |-> centroidForClick(buf, startOf(cl[i]), fftSize, tn[i])]>>
         \o featureLoop003(buf, cl, fftSize, tn, maxAnalyze, i + 1)

\* part_002 analyzeClicks(samples, sr, times): the loop over times
RECURSIVE analyzeLoop(_, _, _, _, _)
analyzeLoop(buf, times, size, tn, i) ==
    IF i > Len(times) THEN <<>>
    ELSE IF startOf(times[i]) + size >= Len(buf)
         THEN analyzeLoop(buf, times, size, tn, i + 1)
         ELSE <<[time |-> times[i], centroid |-> tn[i]]>>
              \o analyzeLoop(buf, times, size, tn, i + 1)

analyzeClicks(buf, times, size, tn) == analyzeLoop(buf, times, size, tn, 1)

\* strictly increasing lists of up to two click indices in a buffer of n samples
ClickIndexLists(n) ==
    {<<>>} \cup {<<i>> : i \in 0..(n - 1)}
    \cup UNION {{<<i, j>> : j \in (i + 1)..(n - 1)} : i \in 0..(n - 1)}

InitFeatures ==
    /\ pc = "input"
    /\ IdlePage
    /\ IdleRuns /\ IdleMeter /\ IdleAnalyze /\ IdleKMeans
    /\ sr = 200
    /\ samples \in UNION {[1..n -> {1}] : n \in 0..MaxWindowBuf}
    /\ clickIdx = <<>> /\ clickIdx4 = <<>> /\ detected = <<>>
    /\ clicks \in ClickIndexLists(Len(samples))
    /\ segments = <<>>
    /\ tones \in [1..Len(clicks) -> AnalyserTones]
    /\ window \in [start : {0}, fftSize : WindowLens]
    /\ centroid = NoCentroid
    /\ features = NoEvents

\* the three feature loops applied to the same buffer and click list
ExtractFeatures ==
    /\ pc = "input"
    /\ features' =
           [script  |-> featureLoop(samples, clicks, window.fftSize, tones, 1),
            part002 |-> analyzeClicks(samples, clicks, window.fftSize, tones),
            part003 |-> featureLoop003(samples, clicks, window.fftSize, tones,
                                       Min(Len(clicks), 20000), 1)]
    /\ pc' = "done"
    /\ UNCHANGED <<sr, pageVars, samples, clickIdx, clickIdx4, detected, tones, window, centroid,
                   tempoVars, kmeansVars, analyzeVars, meterVars, runVars>>

NextFeatures == ExtractFeatures

SpecFeatures == InitFeatures /\ [][NextFeatures]_vars

SpecBuffer == InitBuffer /\ [][NextBuffer]_vars

\* ------------------------------------------------------------------ part_002: the stages after feature extraction
\* classifyDownbeats(events): split at the mean centroid, the smaller side is
\* the downbeats (the high side on a tie); sets e.isDownbeat on every event.
\* e.centroid < sum / n is compared as e.centroid * n < sum.
isLow002(evs, i) == evs[i].centroid * Len(evs) < sumSeq([k \in 1..Len(evs) |-> evs[k].centroid])

classifyDownbeats002(evs) ==
    LET low == {i \in 1..Len(evs) : isLow002(evs, i)}
        downbeats == IF Cardinality(low) < Len(evs) - Cardinality(low)
                     THEN low ELSE (1..Len(evs)) \ low
    IN  [i \in 1..Len(evs) |->
            [time |-> evs[i].time, centroid |-> evs[i].centroid,
             isDownbeat |-> i \in downbeats]]

\* Math.round(events.length / count); a division by zero gives Infinity,
\* written <<1, 0>>
roundedAverage(n, count) == IF count = 0 THEN <<1, 0>> ELSE RRound(Rat(n, count), 1)

\* detectBeatsPerBar(events): events.forEach(e => (e.beatsPerBar = Math.round(avg)))
detectBeatsPerBar002(evs) ==
    [i \in 1..Len(evs) |->
        [time |-> evs[i].time, centroid |-> evs[i].centroid,
         isDownbeat |-> evs[i].isDownbeat,
         beatsPerBar |->
             roundedAverage(Len(evs),
                            Cardinality({k \in 1..Len(evs) : evs[k].isDownbeat}))]]

\* detectTempoChanges(events): the loop from i = 1 (the second event); lastBpm
\* is <<>> for null.  events[i].bpm is set, events[0] gets no bpm.
RECURSIVE tempoChangesLoop(_, _, _, _)
tempoChangesLoop(evs, rate, i, lastBpm) ==
    IF i > Len(evs) THEN <<>>
    ELSE LET bpm == Rat(60 * rate, evs[i].time - evs[i - 1].time)
             changed == lastBpm = <<>> \/ RLt(<<1, 1>>, RAbs(RSub(bpm, lastBpm[1])))
         IN  <<[time |-> evs[i].time, centroid |-> evs[i].centroid,
                isDownbeat |-> evs[i].isDownbeat, beatsPerBar |-> evs[i].beatsPerBar,
                bpm |-> IF changed THEN RRound(bpm, 100) ELSE lastBpm[1]]>>
             \o tempoChangesLoop(evs, rate, i + 1, IF changed THEN <<bpm>> ELSE lastBpm)

detectTempoChanges(evs, rate) ==
    IF evs = <<>> THEN <<>> ELSE <<evs[1]>> \o tempoChangesLoop(evs, rate, 2, <<>>)

\* Number of events of the enumerated event lists.
MaxEvents == 4

\* the events analyzeClicks returns: {time, centroid}, times in ticks of
\* 0.1 s with gaps of 0.5 s or 0.6 s
RECURSIVE EventLists(_)
EventLists(n) ==
    IF n = 0 THEN {<<>>}
    ELSE IF n = 1 THEN {<<[time |-> 1, centroid |-> c]>> : c \in ToneValues}
    ELSE {Append(q, [time |-> q[Len(q)].time + g, centroid |-> c]) :
              q \in EventLists(n - 1), g \in MeterGaps, c \in ToneValues}

\* the part_002 handler after `events = await analyzeClicks(...)`
InitEvents ==
    /\ pc = "extracted"
    /\ IdleRuns /\ IdleMeter /\ IdleAnalyze /\ IdleKMeans /\ IdleTempo
    /\ sr = 10
    /\ samples = <<>> /\ clickIdx = <<>> /\ clickIdx4 = <<>> /\ detected = <<>>
    /\ tones = <<>> /\ window = NoWindow /\ centroid = NoCentroid
    /\ iteration = NoIteration /\ IdlePeak /\ scan = NoScan /\ IdleCalls /\ Idle004
    /\ \E n \in 0..MaxEvents : \E evs \in EventLists(n) :
           /\ features = [NoEvents EXCEPT !.part002 = evs]
           /\ events002 = evs

ClassifyDownbeats002 ==
    /\ pc = "extracted"
    /\ events002' = classifyDownbeats002(events002)
    /\ pc' = "classified"
    /\ UNCHANGED <<sr, iteration, longBuffer, foundPeak, scan, calls, pushedBy, page004,
                   handlers004, state001, ui001, handlers001, detectVars, tempoVars, kmeansVars, analyzeVars, meterVars, runVars>>

DetectBeatsPerBar002 ==
    /\ pc = "classified"
    /\ events002' = detectBeatsPerBar002(events002)
    /\ pc' = "metered"
    /\ UNCHANGED <<sr, iteration, longBuffer, foundPeak, scan, calls, pushedBy, page004,
                   handlers004, state001, ui001, handlers001, detectVars, tempoVars, kmeansVars, analyzeVars, meterVars, runVars>>

DetectTempoChanges ==
    /\ pc = "metered"
    /\ events002' = detectTempoChanges(events002, sr)
    /\ pc' = "segmented"
    /\ UNCHANGED <<sr, iteration, longBuffer, foundPeak, scan, calls, pushedBy, page004,
                   handlers004, state001, ui001, handlers001, detectVars, tempoVars, kmeansVars, analyzeVars, meterVars, runVars>>

NextEvents == ClassifyDownbeats002 \/ DetectBeatsPerBar002 \/ DetectTempoChanges

SpecEvents == InitEvents /\ [][NextEvents]_vars

\* ------------------------------------------------------------------ the k-means loops, one iteration at a time
\* Centroid values that lie closer together than the 1e-6 of the
\* convergence tests: 1 Hz, 1.0000001 Hz and 5 Hz.
NearValues == {<<1, 1>>, <<10000001, 10000000>>, <<5, 1>>}

\* One pass through the body of the for loop of a variant, from centers c1,
\* c2: the centers it leaves and whether it leaves the loop (break).  The
\* body does not read the loop counter, so the pass is the last one of a
\* loop that stands at it.
\*  - script.js kmeans2 breaks when a cluster is empty, after the update;
\*  - part_003 kmeans2 and classifyByCentroidKMeans break before the
\*    assignments c1 = nc1; c2 = nc2, so they leave the centers as they were.
passOf(c1, c2, r, broke) == [c1 |-> r.c1, c2 |-> r.c2, stopped |-> broke]

pass(variant, vals, it, c1, c2) ==
    IF variant = "script"
    THEN passOf(c1, c2, kmeansLoop(vals, it + 1, it, c1, c2, <<>>),
                \E lab \in {0, 1} : countWhere(assignLabels(vals, c1, c2), lab) = 0)
    ELSE IF variant = "part003"
    THEN passOf(c1, c2, kmeansLoop3(vals, it + 1, it, c1, c2, <<>>),
                kmeansLoop3(vals, it + 1, it, c1, c2, <<>>).c1 = c1
                /\ kmeansLoop3(vals, it + 1, it, c1, c2, <<>>).c2 = c2)
    ELSE passOf(c1, c2,
                [c1 |-> centersLoop(vals, 19, c1, c2)[1],
                 c2 |-> centersLoop(vals, 19, c1, c2)[2]],
                centersLoop(vals, 19, c1, c2) = <<c1, c2>>)

InitIterate ==
    /\ pc = "loop"
    /\ IdleRuns /\ IdleMeter /\ IdleAnalyze /\ IdleDetect /\ IdleTempo
    /\ sr = 0
    /\ events002 = <<>> /\ IdlePeak /\ scan = NoScan /\ IdleCalls /\ Idle004
    /\ values \in UNION {[1..n -> NearValues] : n \in 2..MaxValues}
    /\ km = NoResult /\ km3 = NoResult /\ km4 = NoResult
    /\ isDownbeat = <<>> /\ isDownbeat4 = <<>>
    /\ \E variant \in {"script", "part003", "classify"} :
           iteration =
               [variant |-> variant, it |-> 0,
                c1 |-> At(sortedValues(values), lowerQuartileIndex(Len(values))),
                c2 |-> At(sortedValues(values), upperQuartileIndex(Len(values))),
                before |-> <<>>, stopped |-> FALSE]

iterated(p) ==
    [iteration EXCEPT !.it = @ + 1, !.c1 = p.c1, !.c2 = p.c2,
                      !.before = <<iteration.c1, iteration.c2>>,
                      !.stopped = p.stopped]

\* for (let it = 0; it < 20; it++) { ... }: one iteration
Iterate ==
    /\ pc = "loop"
    /\ ~ iteration.stopped
    /\ iteration.it < 20
    /\ iteration' = iterated(pass(iteration.variant, values, iteration.it,
                                  iteration.c1, iteration.c2))
    /\ UNCHANGED <<pc, sr, events002, longBuffer, foundPeak, scan, calls, pushedBy, page004,
                   handlers004, state001, ui001, handlers001, detectVars, tempoVars, kmeansVars, analyzeVars,
                   meterVars, runVars>>

NextIterate == Iterate

SpecIterate == InitIterate /\ [][NextIterate]_vars

\* ------------------------------------------------------------------ script.js (second variant): the peak of a long buffer
\* A long buffer is given by its length n and its non-zero magnitudes
\* at[i] = |samples[i]| (in quanta); every other sample is 0.
\* The peak fold of detectClicksAdaptive visits i = 0, stride, 2 * stride, ...
\* below n and keeps the largest magnitude it sees, starting from 0.
visited(n, stride) == {i \in 0..3 : i < n /\ i % stride = 0}

foldPeak(buf, indices) ==
    IF \E i \in indices \cap DOMAIN buf.at : TRUE
    THEN CHOOSE v \in {buf.at[i] : i \in indices \cap DOMAIN buf.at} :
             \A i \in indices \cap DOMAIN buf.at : buf.at[i] <= v
    ELSE 0

\* let peak ... for (let i = 0; i < n; i += stride)
sampledPeak(buf) == foldPeak(buf, visited(buf.n, peakStride(buf.n)))

\* Buffer lengths around the first length whose stride is 2 (9.07 s at
\* 44.1 kHz), and one whose stride is 3.
LongLens == {399999, 400000, 400001, 600000}

\* the non-zero samples lie among the first four samples
InitPeak ==
    /\ pc = "input"
    /\ IdleRuns /\ IdleMeter /\ IdleAnalyze /\ IdleDetect /\ IdleTempo /\ IdleKMeans
    /\ sr = 44100
    /\ events002 = <<>> /\ iteration = NoIteration /\ scan = NoScan /\ IdleCalls /\ Idle004
    /\ \E n \in LongLens : \E where \in SUBSET (0..3) : \E at \in [where -> Amps \ {0}] :
           longBuffer = [n |-> n, at |-> at]
    /\ foundPeak = <<>>

\* the first loop of detectClicksAdaptive
FindPeak ==
    /\ pc = "input"
    /\ foundPeak' = <<sampledPeak(longBuffer)>>
    /\ pc' = "done"
    /\ UNCHANGED <<sr, events002, iteration, longBuffer, scan, calls, pushedBy, page004,
                   handlers004, state001, ui001, handlers001, detectVars, tempoVars, kmeansVars,
                   analyzeVars, meterVars, runVars>>

NextPeak == FindPeak

SpecPeak == InitPeak /\ [][NextPeak]_vars

\* ------------------------------------------------------------------ script.js (first variant): the scan loop of detectClicks, step by step
\* Buffers with a pulse near the start and two pulses next to each other
\* later on, so that a click can be refined to a sample before the one that
\* triggered it.
InitScan ==
    /\ pc = "scan"
    /\ IdleRuns /\ IdleMeter /\ IdleAnalyze /\ IdleTempo /\ IdleKMeans
    /\ sr \in SampleRates
    /\ \E p1 \in 0..2 : \E p2 \in (p1 + 1)..(BufLen - 2) : \E p3 \in (p2 + 1)..(p2 + 2) :
         \E a1, a2, a3 \in Amps \ {0} :
              samples = PulseBuffer(p1, a1, p2, a2, p3, a3)
    /\ clickIdx = <<>> /\ clickIdx4 = <<>> /\ detected = <<>> /\ tones = <<>>
    /\ IdleCentroid
    /\ events002 = <<>> /\ iteration = NoIteration /\ IdlePeak /\ IdleCalls /\ Idle004
    /\ scan = [i |-> 0, lastIndex |-> <<>>, maxAbs |-> maxAbs(samples), wentBack |-> FALSE]

\* clicks.push(refinedIndex / sr); lastIndex = refinedIndex; i = refinedIndex;
\* followed by the i++ of the for statement
accepted(refinedIndex) ==
    /\ clickIdx' = Append(clickIdx, refinedIndex)
    /\ scan' = [scan EXCEPT !.i = refinedIndex + 1, !.lastIndex = <<refinedIndex>>,
                            !.wentBack = @ \/ refinedIndex < scan.i]

\* one iteration of for (let i = 0; i < samples.length; i++); the list of
\* clicks cannot grow beyond one click per sample unless an index repeats
ScanStep ==
    /\ pc = "scan"
    /\ scan.i < Len(samples)
    /\ Len(clickIdx) <= Len(samples)
    /\ IF /\ overThreshold(At(samples, scan.i), scan.maxAbs)
          /\ (scan.lastIndex = <<>> \/ scan.i - scan.lastIndex[1] > minGapSamples(sr))
       THEN accepted(refineToLocalPeak(samples, scan.i, sr))
       ELSE scan' = [scan EXCEPT !.i = @ + 1] /\ UNCHANGED clickIdx
    /\ UNCHANGED <<pc, sr, samples, clickIdx4, detected, tones, window, centroid, features,
                   events002, iteration, longBuffer, foundPeak, calls, pushedBy, page004,
                   handlers004, state001, ui001, handlers001, tempoVars, kmeansVars, analyzeVars, meterVars, runVars>>

\* the loop condition fails: return clicks
ScanReturn ==
    /\ pc = "scan"
    /\ scan.i >= Len(samples)
    /\ pc' = "done"
    /\ UNCHANGED <<sr, detectVars, pageVars, tempoVars, kmeansVars, analyzeVars, meterVars,
                   runVars>>

NextScan == ScanStep \/ ScanReturn

SpecScan == InitScan /\ [][NextScan]_vars

\* the loop is not suspended: a step that can be taken is taken
SpecScanLive == SpecScan /\ WF_vars(NextScan)

\* ------------------------------------------------------------------ script.js (second variant): overlapping analyze() calls
\* processBtn is never disabled, so every click starts a call of analyze()
\* and a call that is suspended at an await leaves the event loop to the
\* others.  Each action below is the code of one call between two awaits.
\* Number of clicks on processBtn.
MaxCalls == 2

\* await centroidAt(samples, sampleRate, c.sampleIndex): what the analyser
\* measures in the buffer bound to samples at the moment of the call; a file
\* is silent (centroid 0) where it has no click
centroidIn(file, sampleIndex) ==
    IF \E k \in 1..Len(file.sampleIndex) : file.sampleIndex[k] = sampleIndex
    THEN file.centroid[CHOOSE k \in 1..Len(file.sampleIndex) : file.sampleIndex[k] = sampleIndex]
    ELSE 0

NewCall == [at |-> "resume", file |-> NoFile, detected |-> <<>>, i |-> 0, centroid |-> 0]

InitCalls ==
    /\ pc = "idle"
    /\ IdleRuns /\ IdleMeter /\ IdleDetect /\ IdleTempo /\ IdleKMeans
    /\ sr = 0
    /\ events002 = <<>> /\ iteration = NoIteration /\ IdlePeak /\ scan = NoScan /\ Idle004
    /\ IdleAnalyze
    /\ calls = <<>>
    /\ pushedBy = <<>>

\* a click on processBtn: analyze() up to await audioCtx.resume()
Press ==
    /\ Len(calls) < MaxCalls
    /\ calls' = Append(calls, NewCall)
    /\ output' = "Decoding audio"
    /\ pc' = "pressed"
    /\ UNCHANGED <<sr, fileInput, modClicks, classification, pushedBy, events002, iteration,
                   longBuffer, foundPeak, scan, page004, handlers004, state001, ui001, handlers001, detectVars, tempoVars, kmeansVars,
                   meterVars, runVars>>

\* const file = fileInput.files[0]; up to the awaits of decodeAudio(file)
Resumed(c) ==
    /\ calls[c].at = "resume"
    /\ \E f \in RunFiles : calls' = [calls EXCEPT ![c].at = "decode", ![c].file = f]
    /\ UNCHANGED <<pc, sr, analyzeVars, pushedBy, events002, iteration, longBuffer, foundPeak,
                   scan, page004, handlers004, state001, ui001, handlers001, detectVars, tempoVars, kmeansVars, meterVars, runVars>>

\* decodeAudio rejects: catch (e) { setError(e) }
DecodeFailed(c) ==
    /\ calls[c].at = "decode"
    /\ calls' = [calls EXCEPT ![c].at = "failed"]
    /\ output' = "error"
    /\ UNCHANGED <<pc, sr, fileInput, modClicks, classification, pushedBy, events002,
                   iteration, longBuffer, foundPeak, scan, page004, handlers004, state001, ui001, handlers001, detectVars, tempoVars, kmeansVars,
                   meterVars, runVars>>

\* the end of analyze(), from const values = clicks.map(...) on
finishCall(c, cl) ==
    /\ classification' = analysisOf(cl).classification
    /\ output' = analysisOf(cl).output

\* the for loop of analyze() stands at index i (0-based) with the module
\* clicks cl: either it calls centroidAt on the buffer now bound to samples
\* and is suspended in it, or it is over and analyze() runs to its end
loopFrom(c, det, i, cl, file) ==
    IF i < Len(det)
    THEN /\ calls' = [calls EXCEPT ![c].at = "render", ![c].file = @, ![c].detected = det,
                                   ![c].i = i,
                                   ![c].centroid = centroidIn(file, At(det, i).sampleIndex)]
         /\ output' = "Calculating centroids"
         /\ UNCHANGED classification
    ELSE /\ calls' = [calls EXCEPT ![c].at = "done", ![c].detected = det, ![c].i = i]
         /\ finishCall(c, cl)

\* after the decode: audioBuffer, sampleRate and samples are rebound,
\* detectClicksAdaptive runs, clicks = [], and the loop starts
Decoded(c) ==
    /\ calls[c].at = "decode"
    /\ fileInput' = calls[c].file
    /\ modClicks' = resetClicks(modClicks)
    /\ pushedBy' = <<>>
    /\ loopFrom(c, detectedOf(calls[c].file), 0, resetClicks(modClicks), calls[c].file)
    /\ UNCHANGED <<pc, sr, events002, iteration, longBuffer, foundPeak, scan, page004, handlers004, state001, ui001, handlers001, detectVars,
                   tempoVars, kmeansVars, meterVars, runVars>>

\* clicks.push({ ...c, centroid })
pushed(cl, c) ==
    Append(cl, [time |-> At(calls[c].detected, calls[c].i).time,
                sampleIndex |-> At(calls[c].detected, calls[c].i).sampleIndex,
                centroid |-> calls[c].centroid])

\* after await centroidAt(...): the push into the array now bound to clicks,
\* i++, and the loop goes on
Rendered(c) ==
    /\ calls[c].at = "render"
    /\ modClicks' = pushed(modClicks, c)
    /\ pushedBy' = Append(pushedBy, c)
    /\ loopFrom(c, calls[c].detected, calls[c].i + 1, pushed(modClicks, c), fileInput)
    /\ UNCHANGED <<pc, sr, fileInput, events002, iteration, longBuffer, foundPeak, scan, page004, handlers004, state001, ui001, handlers001,
                   detectVars, tempoVars, kmeansVars, meterVars, runVars>>

NextCalls ==
    \/ Press
    \/ \E c \in 1..Len(calls) : Resumed(c)
    \/ \E c \in 1..Len(calls) : DecodeFailed(c)
    \/ \E c \in 1..Len(calls) : Decoded(c)
    \/ \E c \in 1..Len(calls) : Rendered(c)

SpecCalls == InitCalls /\ [][NextCalls]_vars

\* ------------------------------------------------------------------ part_004: the processBtn click handler and its button
\* Each action is the code of one run of the handler between two awaits.
\* A click is delivered only while the button is enabled.  The data a run
\* leaves in samples and beats is named by the number of the run.
\* finally { processBtn.disabled = false }
finally004(page) == [page EXCEPT !.disabled = FALSE]

\* a click on processBtn: without a file the handler returns through
\* finally, otherwise it is suspended at await audioCtx.resume()
Click004 ==
    /\ ~ page004.disabled
    /\ Len(handlers004) < MaxCalls
    /\ \E files \in BOOLEAN :
         IF files
         THEN /\ handlers004' = Append(handlers004, [at |-> "resume", left |-> 0])
              /\ UNCHANGED page004
         ELSE /\ handlers004' = Append(handlers004, [at |-> "finished", left |-> 0])
              /\ page004' = finally004(page004)
    /\ UNCHANGED <<pc, sr, events002, iteration, longBuffer, foundPeak, scan, calls, pushedBy,
                   state001, ui001, handlers001,
                   detectVars, tempoVars, kmeansVars, analyzeVars, meterVars, runVars>>

\* processBtn.disabled = true; output.textContent = "Analyzing"; up to the
\* awaits of decode(...)
Resumed004(h) ==
    /\ handlers004[h].at = "resume"
    /\ handlers004' = [handlers004 EXCEPT ![h].at = "decode"]
    /\ page004' = [page004 EXCEPT !.disabled = TRUE, !.output = "Analyzing"]
    /\ UNCHANGED <<pc, sr, events002, iteration, longBuffer, foundPeak, scan, calls, pushedBy,
                   state001, ui001, handlers001,
                   detectVars, tempoVars, kmeansVars, analyzeVars, meterVars, runVars>>

\* an await rejects: catch writes the error, finally enables the button
Thrown004(h) ==
    /\ handlers004[h].at \in {"decode", "render"}
    /\ handlers004' = [handlers004 EXCEPT ![h].at = "finished"]
    /\ page004' = finally004([page004 EXCEPT !.output = "Error"])
    /\ UNCHANGED <<pc, sr, events002, iteration, longBuffer, foundPeak, scan, calls, pushedBy,
                   state001, ui001, handlers001,
                   detectVars, tempoVars, kmeansVars, analyzeVars, meterVars, runVars>>

\* the centroid loop of run h with left clicks to go: suspended in
\* analyzeCentroid, or over, and then beats is assigned, the output is
\* rendered and finally enables the button
loop004(h, left, page) ==
    IF left > 0
    THEN /\ handlers004' = [handlers004 EXCEPT ![h].at = "render", ![h].left = left]
         /\ page004' = page
    ELSE /\ handlers004' = [handlers004 EXCEPT ![h].at = "finished", ![h].left = 0]
         /\ page004' = finally004([page EXCEPT !.beats = h, !.output = "beats"])

\* after the decode: samples is rebound, detectClicks finds up to two clicks
Decoded004(h) ==
    /\ handlers004[h].at = "decode"
    /\ \E n \in 0..2 : loop004(h, n, [page004 EXCEPT !.samples = h])
    /\ UNCHANGED <<pc, sr, events002, iteration, longBuffer, foundPeak, scan, calls, pushedBy,
                   state001, ui001, handlers001,
                   detectVars, tempoVars, kmeansVars, analyzeVars, meterVars, runVars>>

\* after await analyzeCentroid(...): events.push, i++
Rendered004(h) ==
    /\ handlers004[h].at = "render"
    /\ loop004(h, handlers004[h].left - 1, page004)
    /\ UNCHANGED <<pc, sr, events002, iteration, longBuffer, foundPeak, scan, calls, pushedBy,
                   state001, ui001, handlers001,
                   detectVars, tempoVars, kmeansVars, analyzeVars, meterVars, runVars>>

Init004 ==
    /\ pc = "idle"
    /\ IdleRuns /\ IdleMeter /\ IdleDetect /\ IdleTempo /\ IdleKMeans /\ IdleAnalyze
    /\ sr = 0
    /\ events002 = <<>> /\ iteration = NoIteration /\ IdlePeak /\ scan = NoScan /\ IdleCalls
    /\ page004 = InitialPage004
    /\ handlers004 = <<>>
    /\ Idle001

Next004 ==
    \/ Click004
    \/ \E h \in 1..Len(handlers004) : Resumed004(h)
    \/ \E h \in 1..Len(handlers004) : Thrown004(h)
    \/ \E h \in 1..Len(handlers004) : Decoded004(h)
    \/ \E h \in 1..Len(handlers004) : Rendered004(h)

Spec004 == Init004 /\ [][Next004]_vars

\* ------------------------------------------------------------------ script.js (first variant): the page and its view
\* A file is named by a number; its duration is in seconds, its clicks are
\* those detectClicks finds and analyzeCentroidOffline renders.
Files001 ==
    {[id |-> 1, duration |-> 8, clicks |-> <<1, 5>>],
     [id |-> 2, duration |-> 2, clicks |-> <<1>>],
     [id |-> 3, duration |-> 4, clicks |-> <<>>]}
File001(id) == CHOOSE f \in Files001 : f.id = id
Zooms == {1, 2, 4}
Pans == {0, 500, 1000}

\* state.beats.length === 0
noBeats(from) == from = 0 \/ File001(from).clicks = <<>>

\* clamp(v, lo, hi): Math.min(hi, Math.max(lo, v))
clamp(v, lo, hi) ==
    LET m == IF RLt(v, lo) THEN lo ELSE v
    IN  IF RLt(hi, m) THEN hi ELSE m

\* computeVisibleDuration(totalDur, zoomVal)
computeVisibleDuration(totalDur, zoomVal) ==
    LET z == IF zoomVal > 1 THEN zoomVal ELSE 1
        dur == Rat(totalDur, z)
    IN  IF RLt(dur, RInt(1)) THEN RInt(1) ELSE dur

\* Math.max(0, state.duration - state.visibleDurSec)
maxStartOf(st) ==
    LET d == RSub(RInt(st.duration), st.visibleDurSec)
    IN  IF RLt(d, RInt(0)) THEN RInt(0) ELSE d

\* syncPanSlider(): the range input keeps its value within 0..1000
syncPanSlider(st, ui) ==
    LET maxStart == maxStartOf(st)
        norm == IF RLt(RInt(0), maxStart)
                THEN Rat(st.visibleStartSec[1] * maxStart[2],
                         st.visibleStartSec[2] * maxStart[1])
                ELSE RInt(0)
        value == RRound(RMul(norm, RInt(1000)), 1)[1]
    IN  [ui EXCEPT !.pan = Min(1000, Max(0, value)),
                   !.panDisabled = ~ RLt(RInt(0), maxStart)]

\* renderAll(): nothing without samples, otherwise the view is drawn
renderAll(st, ui) ==
    IF st.samples = 0 THEN ui
    ELSE [ui EXCEPT !.drawn = <<st.visibleStartSec, st.visibleDurSec, st.duration>>]

\* renderBeatTable(): without beats the output is emptied
renderBeatTable(st, ui) ==
    [ui EXCEPT !.table = IF noBeats(st.beats) THEN 0 ELSE st.beats]

\* a click on processBtn with a file selected, up to await audioCtx.resume()
Process001 ==
    /\ Len(handlers001) < MaxCalls
    /\ handlers001' = Append(handlers001, [at |-> "resume", file |-> 0, left |-> 0])
    /\ UNCHANGED <<pc, sr, events002, iteration, longBuffer, foundPeak, scan, calls, pushedBy,
                   page004, handlers004, state001, ui001,
                   detectVars, tempoVars, kmeansVars, analyzeVars, meterVars, runVars>>

\* const file = fileInput.files[0]; up to the awaits of decodeAudio(file)
Resumed001(h) ==
    /\ handlers001[h].at = "resume"
    /\ \E f \in Files001 :
         handlers001' = [handlers001 EXCEPT ![h].at = "decode", ![h].file = f.id]
    /\ UNCHANGED <<pc, sr, events002, iteration, longBuffer, foundPeak, scan, calls, pushedBy,
                   page004, handlers004, state001, ui001,
                   detectVars, tempoVars, kmeansVars, analyzeVars, meterVars, runVars>>

\* an await rejects: catch replaces the output by the message
Thrown001(h) ==
    /\ handlers001[h].at \in {"decode", "render"}
    /\ handlers001' = [handlers001 EXCEPT ![h].at = "failed"]
    /\ ui001' = [ui001 EXCEPT !.table = 0]
    /\ UNCHANGED <<pc, sr, events002, iteration, longBuffer, foundPeak, scan, calls, pushedBy,
                   page004, handlers004, state001,
                   detectVars, tempoVars, kmeansVars, analyzeVars, meterVars, runVars>>

\* the end of a run: state.beats, the view reset, syncPanSlider, renderAll,
\* renderBeatTable and the disabled flags
finished001(st0, ui0, file) ==
    LET st == [st0 EXCEPT !.beats = file,
                          !.visibleStartSec = RInt(0),
                          !.visibleDurSec = computeVisibleDuration(st0.duration, ui0.zoom)]
        ui == renderBeatTable(st, renderAll(st, syncPanSlider(st, ui0)))
    IN  /\ state001' = st
        /\ ui001' = [ui EXCEPT !.panDisabled = noBeats(file), !.zoomDisabled = noBeats(file)]

\* the centroid loop of run h with left clicks to go
loop001(h, left, st) ==
    IF left > 0
    THEN /\ handlers001' = [handlers001 EXCEPT ![h].at = "render", ![h].left = left]
         /\ state001' = st
         /\ UNCHANGED ui001
    ELSE /\ handlers001' = [handlers001 EXCEPT ![h].at = "finished", ![h].left = 0]
         /\ finished001(st, ui001, handlers001[h].file)

\* after the decode: state.buffer, samples, sr and duration are assigned
Decoded001(h) ==
    /\ handlers001[h].at = "decode"
    /\ LET file == File001(handlers001[h].file)
       IN  loop001(h, Len(file.clicks),
                   [state001 EXCEPT !.samples = file.id, !.duration = file.duration])
    /\ UNCHANGED <<pc, sr, events002, iteration, longBuffer, foundPeak, scan, calls, pushedBy,
                   page004, handlers004,
                   detectVars, tempoVars, kmeansVars, analyzeVars, meterVars, runVars>>

\* after await analyzeCentroidOffline(...): events.push
Rendered001(h) ==
    /\ handlers001[h].at = "render"
    /\ loop001(h, handlers001[h].left - 1, state001)
    /\ UNCHANGED <<pc, sr, events002, iteration, longBuffer, foundPeak, scan, calls, pushedBy,
                   page004, handlers004,
                   detectVars, tempoVars, kmeansVars, analyzeVars, meterVars, runVars>>

\* ui.zoom "input"
Zoom001 ==
    /\ ~ ui001.zoomDisabled
    /\ state001.samples # 0
    /\ \E z \in Zooms :
         LET dur == computeVisibleDuration(state001.duration, z)
             st1 == [state001 EXCEPT !.visibleDurSec = dur]
             st == [st1 EXCEPT !.visibleStartSec =
                                  clamp(state001.visibleStartSec, RInt(0), maxStartOf(st1))]
         IN  /\ state001' = st
             /\ ui001' = renderAll(st, syncPanSlider(st, [ui001 EXCEPT !.zoom = z]))
    /\ UNCHANGED <<pc, sr, events002, iteration, longBuffer, foundPeak, scan, calls, pushedBy,
                   page004, handlers004, handlers001,
                   detectVars, tempoVars, kmeansVars, analyzeVars, meterVars, runVars>>

\* ui.pan "input"
Pan001 ==
    /\ ~ ui001.panDisabled
    /\ state001.samples # 0
    /\ \E value \in Pans :
         LET st == [state001 EXCEPT !.visibleStartSec =
                                       RMul(Rat(value, 1000), maxStartOf(state001))]
         IN  /\ state001' = st
             /\ ui001' = renderAll(st, [ui001 EXCEPT !.pan = value])
    /\ UNCHANGED <<pc, sr, events002, iteration, longBuffer, foundPeak, scan, calls, pushedBy,
                   page004, handlers004, handlers001,
                   detectVars, tempoVars, kmeansVars, analyzeVars, meterVars, runVars>>

\* a click on a row of the beat table: centerOnBeatTime(b.time), renderAll,
\* renderBeatTable; b is a beat of the list the table was built from
RowClick001 ==
    /\ ui001.table # 0
    /\ \E i \in 1..Len(File001(ui001.table).clicks) :
         LET time == RInt(File001(ui001.table).clicks[i])
             half == RDivInt(state001.visibleDurSec, 2)
             st == [state001 EXCEPT !.visibleStartSec =
                                       clamp(RSub(time, half), RInt(0), maxStartOf(state001))]
         IN  /\ state001' = st
             /\ ui001' = renderBeatTable(st, renderAll(st, syncPanSlider(st, ui001)))
    /\ UNCHANGED <<pc, sr, events002, iteration, longBuffer, foundPeak, scan, calls, pushedBy,
                   page004, handlers004, handlers001,
                   detectVars, tempoVars, kmeansVars, analyzeVars, meterVars, runVars>>

\* window "resize": renderAll draws the view as it is
Resize001 ==
    /\ state001.samples # 0
    /\ ui001' = renderAll(state001, ui001)
    /\ UNCHANGED <<pc, sr, events002, iteration, longBuffer, foundPeak, scan, calls, pushedBy,
                   page004, handlers004, state001, handlers001,
                   detectVars, tempoVars, kmeansVars, analyzeVars, meterVars, runVars>>

Init001 ==
    /\ pc = "idle"
    /\ IdleRuns /\ IdleMeter /\ IdleDetect /\ IdleTempo /\ IdleKMeans /\ IdleAnalyze
    /\ sr = 0
    /\ events002 = <<>> /\ iteration = NoIteration /\ IdlePeak /\ scan = NoScan /\ IdleCalls
    /\ page004 = InitialPage004 /\ handlers004 = <<>>
    /\ state001 = InitialState001
    /\ \E zoomOff \in BOOLEAN, panOff \in BOOLEAN :
         ui001 = [InitialUi001 EXCEPT !.zoomDisabled = zoomOff, !.panDisabled = panOff]
    /\ handlers001 = <<>>

Next001 ==
    \/ Process001
    \/ \E h \in 1..Len(handlers001) : Resumed001(h)
    \/ \E h \in 1..Len(handlers001) : Thrown001(h)
    \/ \E h \in 1..Len(handlers001) : Decoded001(h)
    \/ \E h \in 1..Len(handlers001) : Rendered001(h)
    \/ Zoom001
    \/ Pan001
    \/ RowClick001
    \/ Resize001

Spec001 == Init001 /\ [][Next001]_vars

\* ------------------------------------------------------------------ claims
\* C1: the click list returned by detectClicks (script.js) is strictly
\* increasing: every accepted click's refined sample index is greater than
\* the refined index of the previously accepted click.
C1_StrictlyIncreasing ==
    pc = "done" =>
        \A k \in 1..(Len(clickIdx) - 1) : clickIdx[k] < clickIdx[k + 1]

\* C1 witness: a run that accepted two clicks, the second one refined to an
\* index before the sample that triggered it.
C1_Witness ==
    /\ pc = "done"
    /\ Len(clickIdx) >= 2
    /\ clickIdx[2] - clickIdx[1] <= minGapSamples(sr)

\* the sample indices returned by detectClicksAdaptive are strictly
\* increasing, so no two clicks of a file share a sampleIndex
AdaptiveStrictlyIncreasing ==
    pc = "done" =>
        \A k \in 1..(Len(detected) - 1) : detected[k] < detected[k + 1]

\* C2: any two consecutive click times returned by detectClicks (script.js)
\* are at least minGapSeconds apart: the refined indices differ by at least
\* floor(0.08 * sr).
C2_MinGap ==
    pc = "done" =>
        \A k \in 1..(Len(clickIdx) - 1) :
            clickIdx[k + 1] - clickIdx[k] >= minGapSamples(sr)

\* C3: for every strictly increasing click list with at least 2 clicks, the
\* segments returned by segmentTempo are non-empty, ordered, gap-free and
\* non-overlapping: the first segment starts at the first click, each
\* segment ends where the next one starts, startTime < endTime, and the last
\* segment ends at the last click.
C3_SegmentsPartition ==
    (pc = "done" /\ Len(clicks) >= 2) =>
        /\ Len(segments) >= 1
        /\ segments[1].startTime = clicks[1]
        /\ segments[Len(segments)].endTime = clicks[Len(clicks)]
        /\ \A k \in 1..Len(segments) : segments[k].startTime < segments[k].endTime
        /\ \A k \in 1..(Len(segments) - 1) :
               segments[k].endTime = segments[k + 1].startTime

\* C3 witness: a run that split a click list into at least three segments.
C3_Witness ==
    /\ pc = "done"
    /\ Len(clicks) >= 2
    /\ Len(segments) >= 3

\* C7: every segment's bpm differs by at most toleranceBpm (1.0) from the
\* smoothed BPM of every interval the segment covers (smoothed intervals
\* startClickIndex .. endClickIndex - 1).
C7_BpmWithinTolerance ==
    pc = "done" =>
        \A k \in 1..Len(segments) :
            \A j \in segments[k].startClickIndex..(segments[k].endClickIndex - 1) :
                RLe(RAbs(RSub(segments[k].bpm,
                              At(smoothSeries(bpmSeries(clicks, sr), 5), j))),
                    RInt(1))

\* C7 witness: a segment that covers two intervals whose smoothed BPM values
\* differ from each other while both stay within the tolerance.
C7_Witness ==
    /\ pc = "done"
    /\ \E k \in 1..Len(segments) :
         \E j \in segments[k].startClickIndex..(segments[k].endClickIndex - 1) :
            At(smoothSeries(bpmSeries(clicks, sr), 5), j) # segments[k].bpm

\* both labels occur in the labelling
BothLabelsUsed(r) == countWhere(r.labels, 0) >= 1 /\ countWhere(r.labels, 1) >= 1

\* the initial centers of the percentile initialisation differ
QuartilesDiffer(vals) ==
    RLt(At(sortedValues(vals), Len(vals) \div 4),
        At(sortedValues(vals), (3 * Len(vals)) \div 4))

\* C5 (as stated): for every input list of at least two centroid values the
\* labelling returned by kmeans2 has at least one value with label 0 and at
\* least one with label 1.
C5_NeverEmptyCluster ==
    (pc = "done" /\ Len(values) >= 2) =>
        BothLabelsUsed(km) /\ BothLabelsUsed(km3) /\ BothLabelsUsed(km4)

\* C5 (amended): for every input list of at least two centroid values whose
\* lower-quartile element sorted[floor(n/4)] is smaller than its
\* upper-quartile element sorted[floor(3n/4)], the labelling returned by
\* kmeans2 has at least one value with label 0 and at least one with label 1;
\* label 0 is used by every non-empty labelling.
C5_NonEmptyWhenQuartilesDiffer ==
    (pc = "done" /\ Len(values) >= 2) =>
        /\ countWhere(km.labels, 0) >= 1
        /\ countWhere(km3.labels, 0) >= 1
        /\ countWhere(km4.labels, 0) >= 1
        /\ QuartilesDiffer(values) =>
               BothLabelsUsed(km) /\ BothLabelsUsed(km3) /\ BothLabelsUsed(km4)

\* C5 witness: a clustered list with three distinct values and distinct
\* quartile elements.
C5_Witness ==
    /\ pc = "done"
    /\ Len(values) >= 4
    /\ QuartilesDiffer(values)
    /\ Cardinality({values[i] : i \in 1..Len(values)}) >= 3
    /\ BothLabelsUsed(km)

\* what kmeans2 returned is a fixed point of assignment and update
Converged(vals, r) ==
    /\ r.labels = assignLabels(vals, r.c1, r.c2)
    /\ countWhere(r.labels, 0) > 0 => meanOr(vals, r.labels, 0, r.c1) = r.c1
    /\ countWhere(r.labels, 1) > 0 => meanOr(vals, r.labels, 1, r.c2) = r.c2

\* C6: for every input list, what kmeans2 (part_003 and script.js) returns
\* within its cap of 20 iterations is converged: re-assigning every value to
\* its nearer returned center reproduces the returned labels, and
\* recomputing the mean of each non-empty cluster reproduces the returned
\* centers.
C6_Converged ==
    pc = "done" => Converged(values, km3) /\ Converged(values, km)

\* C4: when analyze reports a grid (beatsPerBar N, phase p) from
\* alignDownbeatsByPhase, 0 <= p < N, and click index i is reported as a
\* downbeat exactly when (i - p) mod N = 0.
C4_DownbeatsOnGrid ==
    pc = "done" =>
        /\ output.phase >= 0
        /\ output.phase < output.beatsPerBar
        /\ \A i \in 0..(Len(output.items) - 1) :
               At(output.items, i).downbeat <=>
                   (i - output.phase) % output.beatsPerBar = 0

\* C4 witness: a reported grid with a non-zero phase and two downbeats.
C4_Witness ==
    /\ pc = "done"
    /\ output.phase > 0
    /\ Cardinality({i \in 1..Len(output.items) : output.items[i].downbeat}) >= 2

\* the file is Scenario B: at least 8 clicks, 0.6 s apart, exactly the clicks
\* at indices 0, 4, 8, ... share one centroid that is higher than the common
\* centroid of all other clicks
ScenarioB(file) ==
    /\ Len(file.sampleIndex) >= 8
    /\ \A i \in 1..(Len(file.sampleIndex) - 1) :
           10 * (file.sampleIndex[i + 1] - file.sampleIndex[i]) = 6 * file.sr
    /\ \A i, j \in 0..(Len(file.centroid) - 1) :
           /\ (i % 4 = 0 /\ j % 4 = 0) => At(file.centroid, i) = At(file.centroid, j)
           /\ (i % 4 # 0 /\ j % 4 # 0) => At(file.centroid, i) = At(file.centroid, j)
           /\ (i % 4 = 0 /\ j % 4 # 0) => At(file.centroid, i) > At(file.centroid, j)

\* C10: on a Scenario B file the pipeline reports beatsPerBar = 4, marks as
\* downbeats exactly the indices 0, 4, 8, ..., and reports a tempo segment
\* with bpm 100.0.
C10_ScenarioB ==
    (pc = "done" /\ ScenarioB(fileInput)) =>
        /\ output.beatsPerBar = 4
        /\ \A i \in 0..(Len(output.items) - 1) :
               At(output.items, i).downbeat <=> (i % 4 = 0)
        /\ \E k \in 1..Len(output.tempoSegments) :
               output.tempoSegments[k].bpm = RInt(100)

\* C10 witness: a finished analysis of a Scenario B file with 9 clicks.
C10_Witness ==
    /\ pc = "done"
    /\ ScenarioB(fileInput)
    /\ Len(output.items) = 9

\* null or an integer in [2, 12]
InMeterRange(r) == r = <<>> \/ (r[1] >= 2 /\ r[1] <= 12)

\* C9: for every click list and labelling, the beatsPerBar reported by
\* inferBeatsPerBar (script.js), autoBeatsPerBar (part_003) and
\* detectBeatsPerBar (part_000) is null or an integer in [2, 12].
C9_MeterInRange ==
    pc = "done" =>
        InMeterRange(meter.infer) /\ InMeterRange(meter.auto) /\ InMeterRange(meter.detect)

\* C8: two analysis runs executed one after the other on identical samples
\* and configuration produce identical output, whatever was analysed before:
\* the report of every run equals the report of the first run of the same
\* handler on the same file.
C8_RunsDeterministic ==
    /\ pc = "script" => firstOf(firstOutput, "script", fileInput) = <<output>>
    /\ pc = "part_003" => firstOf(firstOutput, lastRun.handler, fileInput) = <<output003>>

\* C8 witness: a run of analyze() that repeats an earlier input with two
\* clicks while the module-level clicks still hold another file's clicks.
C8_Witness ==
    /\ pc = "script"
    /\ Len(fileInput.sampleIndex) = 2
    /\ lastRun.repeated
    /\ lastRun.afterOther


\* the gaps between consecutive clicks of a file, in samples
gapsOf(f) == [i \in 1..(Len(f.sampleIndex) - 1) |-> f.sampleIndex[i + 1] - f.sampleIndex[i]]

\* a run of 120 BPM intervals followed by at least three 140 BPM intervals
IsStepTrain(f) ==
    /\ f.sr = FileRate
    /\ \E n1 \in 1..Len(f.sampleIndex) :
          /\ Len(gapsOf(f)) - n1 >= 3
          /\ \A i \in 1..Len(gapsOf(f)) :
                gapsOf(f)[i] = IF i <= n1 THEN Gap120 ELSE Gap140

\* exactly two segments, with bpm 120 and 140
TwoSegments(segs) ==
    /\ Len(segs) = 2
    /\ segs[1].bpm = <<120, 1>>
    /\ segs[2].bpm = <<140, 1>>

\* C11: Scenario C: for every click train at exactly 120 BPM for an initial
\* run of intervals and exactly 140 BPM for the remaining (at least 3)
\* intervals, the tempo segmenters return exactly two segments, the first
\* with bpm 120.0 and the second with bpm 140.0.
C11_ScenarioC ==
    IsStepTrain(fileInput) =>
        /\ pc \in {"script done", "done"} => TwoSegments(output.tempoSegments)
        /\ pc = "done" => TwoSegments(output003.tempoSegments)

\* uniform 0.5 s spacing, every click with the same centroid
IsUniformTrain(f) ==
    /\ f.sr = FileRate
    /\ Len(f.sampleIndex) >= 2
    /\ \A i \in 1..Len(gapsOf(f)) : gapsOf(f)[i] = Gap120
    /\ \A i \in 1..Len(f.centroid) : f.centroid[i] = f.centroid[1]

\* the segments that detectTempoSegments reports are one segment that
\* starts at the first click
SingleSegment(segs, f) ==
    /\ Len(segs) = 1
    /\ segs[1].time = r3(Rat(f.sampleIndex[1], f.sr))

\* the segments that segmentTempo reports are one segment from the first
\* to the last click
SingleSegment003(segs, f) ==
    /\ Len(segs) = 1
    /\ segs[1].startClickIndex = 0
    /\ segs[1].endClickIndex = Len(f.sampleIndex) - 1
    /\ segs[1].startTime = f.sampleIndex[1]
    /\ segs[1].endTime = f.sampleIndex[Len(f.sampleIndex)]

\* beatsPerBar of the script.js report, <<>> for null and <<n>> for n:
\* inferBeatsPerBar returns a number on both of its exits
reportedBeatsPerBar(out) == <<out.beatsPerBar>>

\* the tempo half of Scenario A
ScenarioATempo ==
    IsUniformTrain(fileInput) =>
        /\ pc \in {"script done", "done"} =>
               /\ SingleSegment(output.tempoSegments, fileInput)
               /\ output.tempoSegments[1].bpm = <<120, 1>>
        /\ pc = "done" =>
               /\ SingleSegment003(output003.tempoSegments, fileInput)
               /\ output003.tempoSegments[1].bpm = <<120, 1>>

\* C12: Scenario A: for a uniform click train at exactly 120 BPM in which
\* every click has the same centroid, the pipeline reports exactly one tempo
\* segment, with bpm 120.0, spanning the first to the last click, and
\* reports beatsPerBar = null.
C12_ScenarioA ==
    /\ ScenarioATempo
    /\ IsUniformTrain(fileInput) =>
           /\ pc \in {"script done", "done"} => reportedBeatsPerBar(output) = <<>>
           /\ pc = "done" => output003.beatsPerBar = <<>>

\* the tempo half of Scenario E
ScenarioETempo ==
    Len(fileInput.sampleIndex) = 3 =>
        /\ pc \in {"script done", "done"} => SingleSegment(output.tempoSegments, fileInput)
        /\ pc = "done" => SingleSegment003(output003.tempoSegments, fileInput)

\* C13: Scenario E: for every click list of exactly 3 strictly increasing
\* click times, the tempo segmenter returns a single segment spanning the
\* first to the third click, and the reported beatsPerBar is null.
C13_ScenarioE ==
    /\ ScenarioETempo
    /\ Len(fileInput.sampleIndex) = 3 =>
           /\ pc \in {"script done", "done"} => reportedBeatsPerBar(output) = <<>>
           /\ pc = "done" => output003.beatsPerBar = <<>>

\* every sample of the buffer is zero
AllZero(buf) == \A k \in 1..Len(buf) : buf[k] = 0

\* the rest of Scenario D: no click, no tempo segment
ScenarioDEmpty ==
    pc = "done" /\ AllZero(samples) =>
        /\ detected = <<>>
        /\ modClicks = <<>>
        /\ output.items = <<>>
        /\ output.tempoSegments = <<>>

\* C14: Scenario D: for an all-zero sample buffer the pipeline run by
\* analyze completes, the click list is empty, the tempo-segment list is
\* empty, and the reported beatsPerBar is null.
C14_ScenarioD ==
    /\ ScenarioDEmpty
    /\ pc = "done" /\ AllZero(samples) => reportedBeatsPerBar(output) = <<>>

\* the global peak is one quantum at most: a near-silent buffer, the quantum
\* being as small as one likes
NearSilent(buf) == maxAbs(buf) <= 1

\* C15: whenever the buffer's global peak absolute amplitude is below a small
\* positive epsilon (near-silent, not necessarily all zeros), detectClicks
\* (script.js, part_004) returns an empty click list.
C15_NearSilentEmpty ==
    pc = "done" /\ NearSilent(samples) => clickIdx = <<>> /\ clickIdx4 = <<>>

\* an all-zero buffer yields no click in any detector
AllZeroEmpty ==
    pc = "done" /\ AllZero(samples) =>
        clickIdx = <<>> /\ clickIdx4 = <<>> /\ detected = <<>>

\* |x - y| > 1, the tolerance both handlers pass to their segmenter
OutOfTolerance(x, y) == RLt(RInt(1), RAbs(RSub(x, y)))

\* the running BPM when the segmenter loop reaches smoothed value i
RECURSIVE runningBefore(_, _)
runningBefore(sm, i) ==
    IF i <= 1 THEN At(sm, 0)
    ELSE IF OutOfTolerance(At(sm, i - 1), runningBefore(sm, i - 1))
         THEN At(sm, i - 1)
         ELSE runningBefore(sm, i - 1)

\* the smoothed indices at which a reported segment starts, the first excepted
boundaries003(segs) == {segs[k].startClickIndex : k \in 2..Len(segs)}

boundariesScript(segs, cl) ==
    {i \in 1..(Len(cl) - 1) : \E k \in 1..Len(segs) : segs[k].time = r3(At(cl, i).time)}

\* every boundary is followed by three consecutive smoothed values out of
\* tolerance of the running BPM, itself included
Debounced(sm, bs) ==
    \A i \in bs : \A d \in 0..2 :
        i + d < Len(sm) /\ OutOfTolerance(At(sm, i + d), runningBefore(sm, i))

\* C16: the tempo segmenter debounces tempo changes: a segment is closed
\* only after debounceCount (3) consecutive smoothed BPM values are out of
\* tolerance, so a shorter excursion that returns within tolerance of the
\* running BPM closes no segment.
C16_Debounced ==
    /\ pc \in {"script done", "done"} =>
           Debounced(smoothOf(bpmsOf(modClicks)),
                     boundariesScript(output.tempoSegments, modClicks))
    /\ pc = "done" /\ Len(fileInput.sampleIndex) >= 2 =>
           Debounced(smoothSeries(bpmSeries(fileInput.sampleIndex, fileInput.sr), 5),
                     boundaries003(output003.tempoSegments))

\* the number of flagged events
downCount(flags) == Cardinality({i \in 1..Len(flags) : flags[i]})

\* the flagged events are one of the two clusters of the final centers and
\* no more than half of the events
MinorityFlagged(flags) == 2 * downCount(flags) <= Len(flags)

\* the script.js half of C17
MinorityFlaggedScript == pc = "done" => MinorityFlagged(isDownbeat)

\* C17: baseline rule: the events flagged isDownbeat by the centroid
\* classifiers (classifyByCentroidKMeans in script.js,
\* classifyDownbeatsByCentroid in part_004) are exactly the members of the
\* cluster with fewer members, so the number of downbeats never exceeds the
\* number of non-downbeats.
C17_MinorityIsDownbeat ==
    pc = "done" => MinorityFlagged(isDownbeat) /\ MinorityFlagged(isDownbeat4)

\* the flags of the report are those of the baseline rule: an event is a
\* downbeat exactly when its label is the minority label
BaselineFlags ==
    \A i \in 1..Len(output.items) :
        output.items[i].downbeat = (output.labels[i] = classification.downbeatClusterLabel)

\* C18: when fewer than 8 events are analysed, periodicity (grid / phase)
\* refinement is skipped entirely: the downbeat flags are those of the
\* baseline minority-cluster rule and no grid-derived downbeat set replaces
\* them.
C18_ShortSkipsRefinement ==
    pc = "done" /\ Len(modClicks) < 8 => BaselineFlags

\* the window [start, start + fftSize) lies fully inside the buffer
WindowInside == window.start >= 0 /\ window.start + window.fftSize <= Len(samples)

\* the centroid is the analyser's value for the window, not the forced 0
AnalysedBy(c) == c = tones[1]

\* C19: the centroid is forced to 0 if and only if the window
\* [start, start + fftSize) does not lie fully inside the buffer; a window
\* that ends exactly at the end of the buffer is analysed.
C19_ZeroIffOutside ==
    pc = "done" =>
        /\ WindowInside =>
               AnalysedBy(centroid.offline) /\ AnalysedBy(centroid.at)
               /\ AnalysedBy(centroid.forClick)
        /\ ~ WindowInside =>
               centroid.offline = 0 /\ centroid.at = 0 /\ centroid.forClick = 0

\* what the guards do for a click (start >= 0): 0 exactly when
\* start + fftSize >= samples.length
ZeroIffNotStrictlyInside ==
    pc = "done" /\ window.start >= 0 =>
        IF window.start + window.fftSize < Len(samples)
        THEN AnalysedBy(centroid.offline) /\ AnalysedBy(centroid.at)
             /\ AnalysedBy(centroid.forClick)
        ELSE centroid.offline = 0 /\ centroid.at = 0 /\ centroid.forClick = 0

\* one event per click, in click order, with the click's time
OnePerClick(ev) ==
    /\ Len(ev) = Len(clicks)
    /\ \A i \in 1..Len(ev) : ev[i].time = clicks[i]

\* the script.js and part_003 halves of C20
OnePerClickInHandlers ==
    pc = "done" => OnePerClick(features.script) /\ OnePerClick(features.part003)

\* C20: feature extraction yields exactly one feature event per detected
\* click, in click order and with that click's time: a click too close to
\* the end of the buffer gets centroid 0 but is still present, so the event
\* list and the click list have the same length.
C20_OneEventPerClick ==
    pc = "done" =>
        /\ OnePerClick(features.script)
        /\ OnePerClick(features.part002)
        /\ OnePerClick(features.part003)

\* C21 (part_002): once classifyDownbeats has run, the later stages leave
\* every event as the classifier left it: the same fields time, centroid and
\* isDownbeat, with the same values.
C21_LaterStagesOnlyRead ==
    pc \in {"metered", "segmented"} => events002 = classifyDownbeats002(features.part002)

\* the values of time, centroid and isDownbeat survive the later stages
ClassifiedFieldsKept ==
    pc \in {"metered", "segmented"} =>
        LET cl == classifyDownbeats002(features.part002)
        IN  /\ Len(events002) = Len(cl)
            /\ \A i \in 1..Len(cl) :
                   /\ events002[i].time = cl[i].time
                   /\ events002[i].centroid = cl[i].centroid
                   /\ events002[i].isDownbeat = cl[i].isDownbeat

\* the labels the last iteration assigned, and the mean of a cluster
lastLabels == assignLabels(values, iteration.before[1], iteration.before[2])
lastMean(lab) == RDivInt(sumWhere(values, lastLabels, lab, 1), countWhere(lastLabels, lab))

\* C22 (as stated): in every iteration in which a cluster receives no
\* members, that cluster's center keeps its previous value and the other
\* center becomes the mean of its members.
C22_EmptyKeepsCenter ==
    iteration.it >= 1 =>
        /\ countWhere(lastLabels, 1) = 0 =>
               iteration.c2 = iteration.before[2] /\ iteration.c1 = lastMean(0)
        /\ countWhere(lastLabels, 0) = 0 =>
               iteration.c1 = iteration.before[1] /\ iteration.c2 = lastMean(1)

\* the center is the mean of the cluster, or the iteration left the loop of
\* part_003 kmeans2 / classifyByCentroidKMeans at the convergence test and
\* the center stays where it was, less than 1e-6 from that mean
MeanOrConverged(now, was, mean) ==
    \/ now = mean
    \/ /\ iteration.variant \in {"part003", "classify"}
       /\ iteration.stopped
       /\ now = was
       /\ ~ moved(mean, was)

\* C22 (amended): in every iteration in which a cluster receives no members,
\* that cluster's center keeps its previous value; the other center becomes
\* the mean of its members, except that part_003 kmeans2 and
\* classifyByCentroidKMeans leave it unchanged when the iteration passes the
\* convergence test (both new centers within 1e-6 of the old ones).
C22_EmptyKeepsCenterUpToTolerance ==
    iteration.it >= 1 =>
        /\ countWhere(lastLabels, 1) = 0 =>
               /\ iteration.c2 = iteration.before[2]
               /\ MeanOrConverged(iteration.c1, iteration.before[1], lastMean(0))
        /\ countWhere(lastLabels, 0) = 0 =>
               /\ iteration.c1 = iteration.before[1]
               /\ MeanOrConverged(iteration.c2, iteration.before[2], lastMean(1))

\* C22 witness: an iteration of part_003 kmeans2 that gave cluster 1 no
\* members, kept c2 and moved c1 to the mean of all values.
C22_Witness ==
    /\ iteration.variant = "part003"
    /\ iteration.it >= 1
    /\ countWhere(lastLabels, 1) = 0
    /\ iteration.c2 = iteration.before[2]
    /\ iteration.c1 # iteration.before[1]
    /\ iteration.c1 = lastMean(0)

\* the smoothed BPM values of the intervals segment seg covers
memberBpms(seg) ==
    [j \in 1..(seg.endClickIndex - seg.startClickIndex) |->
        At(smoothSeries(bpmSeries(clicks, sr), 5), seg.startClickIndex + j - 1)]

\* C23 (part_003 segmentTempo): every emitted segment carries as bpm the
\* median of the smoothed BPM values of the intervals it covers, rounded to
\* one decimal place.
C23_BpmIsRoundedMedian ==
    pc = "done" =>
        \A k \in 1..Len(segments) : segments[k].bpm = r1(median(memberBpms(segments[k])))

\* what segmentTempo does report: the smoothed BPM of the first interval of
\* the segment, unrounded
BpmIsFirstSmoothed ==
    pc = "done" =>
        \A k \in 1..Len(segments) : segments[k].bpm = memberBpms(segments[k])[1]

\* the largest magnitude of the whole buffer
globalPeak(buf) == foldPeak(buf, 0..3)

\* C24: for every buffer length, the threshold of detectClicksAdaptive is
\* 0.35 times the peak magnitude over all samples of the buffer: the peak the
\* fold finds is the global peak.
C24_ThresholdFromGlobalPeak ==
    foundPeak # <<>> => foundPeak[1] * 35 = globalPeak(longBuffer) * 35

\* the fold does find the global peak of a buffer shorter than 400000 samples
GlobalPeakWhenShort ==
    (foundPeak # <<>> /\ longBuffer.n < 400000) => foundPeak[1] = globalPeak(longBuffer)

\* the sample indices from index from on whose magnitude exceeds the
\* threshold of detectClicksAdaptive
overAbove(from, pk) == {i \in from..(Len(samples) - 1) : overThreshold(At(samples, i), pk)}

overFrom(from) == overAbove(from, peakFrom(samples, peakStride(Len(samples)), 0, 0))

\* the first click is the refinement of the lowest index of the set, and
\* there is no click when the set is empty
FirstClickFrom(over) ==
    IF over = {} THEN detected = <<>>
    ELSE /\ detected # <<>>
         /\ detected[1] =
                refineForward(samples, CHOOSE i \in over : \A j \in over : i <= j, sr)

\* C25: in detectClicksAdaptive the lowest-index sample whose magnitude
\* exceeds the threshold, a sample at index 0 included, triggers the first
\* click.
C25_FirstOverThresholdTriggers ==
    pc = "done" => FirstClickFrom(overFrom(0))

\* what the scan does: the first click is triggered by the lowest index from
\* 1 on whose magnitude exceeds the threshold
FirstTriggerSkipsIndexZero ==
    pc = "done" => FirstClickFrom(overFrom(1))

\* C26: detectClicks (script.js) terminates on every buffer although it sets
\* its loop index back to the refined index: with every accepted click
\* lastIndex strictly increases, and the scan reaches the end of the buffer
\* and returns.
C26_ScanTerminates ==
    /\ [][Len(clickIdx') > Len(clickIdx) =>
              (scan.lastIndex = <<>> \/ scan'.lastIndex[1] > scan.lastIndex[1])]_vars
    /\ <>(pc = "done")

\* C26 witness: a scan that has returned after accepting a click whose
\* refined index lies before the sample that triggered it.
C26_Witness ==
    /\ pc = "done"
    /\ scan.wentBack
    /\ Len(clickIdx) >= 2
    /\ scan.i >= Len(samples)

\* the step-by-step scan returns what detectClicks returns
ScanIsDetectClicks == pc = "done" => clickIdx = detectClicks(samples, sr)

\* every call has left analyze() and at least one ran to its end
AllCallsFinished ==
    /\ \A c \in 1..Len(calls) : calls[c].at \in {"done", "failed"}
    /\ \E c \in 1..Len(calls) : calls[c].at = "done"

\* the module-level clicks are the clicks of one call: all pushed by it, one
\* per click it detected
ClicksOfOneCall ==
    \E c \in 1..Len(calls) :
        /\ \A k \in 1..Len(pushedBy) : pushedBy[k] = c
        /\ Len(modClicks) = Len(calls[c].detected)
        /\ \A k \in 1..Len(modClicks) :
               modClicks[k].sampleIndex = calls[c].detected[k].sampleIndex

DownbeatsAmongClicks ==
    classification.downbeatsSet \subseteq {modClicks[k].sampleIndex : k \in 1..Len(modClicks)}

\* C27: when processBtn is pressed again while an earlier analyze() is
\* suspended at an await, then once all calls have finished the module-level
\* clicks hold the entries of exactly one call and
\* classification.downbeatsSet refers to sample indices of those clicks.
C27_OneRunAfterOverlap ==
    AllCallsFinished => ClicksOfOneCall /\ DownbeatsAmongClicks

\* the classification that is left was computed from the clicks that are left
ClassificationOfFinalClicks ==
    AllCallsFinished =>
        /\ DownbeatsAmongClicks
        /\ classification = analysisOf(modClicks).classification

\* the runs of the part_004 handler that have started and not yet passed
\* their finally block
executing004 == {h \in 1..Len(handlers004) : handlers004[h].at # "finished"}

\* C28 (part_004): at most one run is in progress at any time, processBtn
\* is disabled for the whole time a run is executing (from the click that
\* starts it to its finally block), and the button is enabled again after
\* every run.
C28_OneRunInProgress ==
    /\ Cardinality(executing004) <= 1
    /\ executing004 # {} => page004.disabled
    /\ executing004 = {} => ~ page004.disabled

\* when no run is left executing the button is enabled: every run ends in
\* its finally block, whether it returned early, succeeded or threw
EnabledAfterRuns == executing004 = {} => ~ page004.disabled

\* the runs of the first script.js handler that have ended, normally or
\* through the catch block
ended001 == {h \in 1..Len(handlers001) : handlers001[h].at \in {"finished", "failed"}}

\* C29 (script.js, first variant): whenever a process run has ended,
\* normally or through its catch block, state.beats was computed from the
\* samples held in state.samples; a failed run leaves the previous samples
\* and beats both in place.
C29_BeatsOfHeldSamples ==
    ended001 # {} => state001.beats = state001.samples

\* a run that fails in its decode leaves state.samples and state.beats as
\* they were
DecodeFailureKeepsState ==
    [][\A h \in 1..Len(handlers001) :
         (handlers001[h].at = "decode" /\ handlers001'[h].at = "failed")
         => state001' = state001]_vars

\* 0 <= visibleStartSec <= max(0, duration - visibleDurSec) in the state st
viewInRange(st) ==
    /\ RLe(RInt(0), st.visibleStartSec)
    /\ RLe(st.visibleStartSec, maxStartOf(st))

\* C30 (script.js, first variant): in every state in which rendering can
\* occur (state.samples is set), under any interleaving of process, zoom,
\* pan, row-click and resize events,
\* 0 <= state.visibleStartSec <= max(0, state.duration - state.visibleDurSec).
C30_ViewInRange ==
    state001.samples # 0 => viewInRange(state001)

\* every handler that writes the view leaves it in range: the zoom, pan and
\* row-click handlers and the end of a run
ViewWritersInRange ==
    [][<<state001'.visibleStartSec, state001'.visibleDurSec>>
         # <<state001.visibleStartSec, state001.visibleDurSec>>
       => viewInRange(state001')]_vars

\* renderAll() has drawn a view whose start lies beyond the scrollable range
DrawnOutOfRange ==
    /\ ui001.drawn # <<>>
    /\ ~ viewInRange([duration |-> ui001.drawn[3], visibleStartSec |-> ui001.drawn[1],
                      visibleDurSec |-> ui001.drawn[2]])

\* after a run on the 8 s file, zoom 2 and the pan slider at its end, a second
\* run has decoded the 2 s file and is suspended in its centroid loop
StaleViewAfterDecode ==
    /\ state001 = [samples |-> 2, beats |-> 1, duration |-> 2,
                   visibleStartSec |-> <<4, 1>>, visibleDurSec |-> <<4, 1>>]
    /\ \E h \in 1..Len(handlers001) : handlers001[h].at = "render"
    /\ ended001 # {}

\* two overlapping runs have both ended normally and state.beats is not
\* the list computed from state.samples
OverlapMispairs ==
    /\ Len(handlers001) = 2
    /\ \A h \in 1..2 : handlers001[h].at = "finished"
    /\ state001.beats # state001.samples

====
